---- MODULE Spec2Model ----
(***************************************************************************)
(* Behavioural model of the client-side widgets of valleytainment.com:     *)
(* the ValleyBot chat widget and the inline chatbot, the three image       *)
(* generators, and the SecurityManager. Strings the code inspects are      *)
(* sequences of one-character strings; canned replies, which the code only *)
(* passes on, are TLA+ strings holding the opening words of the reply.     *)
(***************************************************************************)
EXTENDS Integers, Sequences, FiniteSets, TLC

VARIABLES
  \* ---- reply computation (ValleyBot.getEnhancedResponse, initChatbot.getBotResponse)
  rInput,        \* text of the chat input field
  rEnhanced,     \* reply ValleyBot computed for it, or NoReply
  rInline,       \* reply the inline chatbot computed for it, or NoReply
  \* ---- the browser
  localStorage,  \* window.localStorage: key -> stored text
  now,           \* the clock new Date() reads
  \* ---- ValleyBot (advanced-chatbot.js)
  chatLoaded,    \* the page is loaded: ValleyBot constructed and init() run
  chatHistory,   \* this.chatHistory
  analytics,     \* this.analytics
  pendingReplies,\* getBotResponse calls waiting for their 1500 ms timer, oldest first
  chatError,     \* exception that escaped the last ValleyBot handler, or NoError
  chatPushed,    \* history: every entry pushed on chatHistory since it was loaded or cleared
  chatSubmitted, \* history: the non-empty submissions since the page was loaded, in order
  chatReplied,   \* history: submission numbers, in the order assistant replies were pushed
  chatClears,    \* history: calls of clearChatHistory since the page was loaded
  typingIndicators, \* elements 'typing-indicator' in the main chat
  chatReloads,   \* history: number of page loads
  speechSupported, \* window has SpeechRecognition or webkitSpeechRecognition
  isListening,   \* this.isListening
  recognition,   \* this.recognition: position in sessions of the object it refers to, 0 for null
  sessions,      \* the SpeechRecognition objects toggleVoiceInput started, oldest first
  voiceTimers,   \* 500 ms timers set by onresult and not fired yet, oldest first
  inputFields,   \* value of the input field of the main chat (FALSE) and of the popup (TRUE)
  voiceResults,  \* history: number of result events delivered
  \* ---- ValleyImageGenerator (class), the inline generator of initAIImageGenerator,
  \*      and the function-based generator (initImageGenerator)
  genLoaded,         \* class: constructed and init() run
  generationHistory, \* class: this.generationHistory, newest first
  genAnalytics,      \* class: this.analytics
  genResult,         \* class: outcome of the last fetchGeneratedImage
  genError,          \* class: exception that escaped init(), or NoError
  inlineLoaded,      \* inline: initAIImageGenerator returned normally
  inlineError,       \* inline: exception that escaped initAIImageGenerator, or NoError
  inlineHistory,     \* inline: imageHistory of the closure, newest first
  inlinePending,     \* inline: clicks waiting for their 2000 ms timer, oldest first
  fnLoaded,          \* function-based: imageGeneratorInitialized
  imageHistory,      \* function-based: imageHistory, newest first
  isGenerating,      \* function-based: isGenerating
  genIsGenerating,   \* ValleyImageGenerator: this.isGenerating
  fnRefused,         \* history: function-based generate calls refused while isGenerating
  genTried,          \* history: endpoints the last fetchGeneratedImage went through, in order
  fnTried,           \* history: sources the last generateImageFromPrompt went through, in order
  fnPending,         \* function-based: callImageAPI calls waiting for their 1500 ms timer
  fnResult,          \* function-based: outcome of the last generateImageFromPrompt
  genAdded,          \* history: entries loaded into and added to generationHistory, oldest first
  inlineAdded,       \* history: the same for the inline generator
  fnAdded,           \* history: the same for the function-based generator
  generations,       \* history: number of generate requests on the page
  \* ---- SecurityManager (security layer) and the globals it wraps
  secLoaded,            \* SecurityManager constructed and init() run on this page
  csrfToken,            \* this.csrfToken
  suspiciousActivities, \* this.suspiciousActivities, oldest first
  isBlocked,            \* this.isBlocked
  blockExpiry,          \* this.blockExpiry
  requestCount,         \* this.requestCount
  failedAttempts,       \* this.failedAttempts
  blockMessages,        \* number of #security-block-message elements in the document
  unblockTimers,        \* deadlines of the pending setTimeout(unblockUser), oldest first
  countdowns,           \* number of running countdown intervals of showBlockMessage
  nextReset,            \* deadline of the next run of requestCountResetTimer
  fieldValue,           \* value of the text field after its last input or submit event
  typedText,            \* text the visitor typed, or the argument of the last sanitizeInput call
  lastRequest,          \* outcome of the last fetch() or XMLHttpRequest send()
  secError,             \* exception that escaped a listener of the last event, or NoError
  secInputs,            \* history: number of input events since the first page load
  \* ---- TestingUtilities (testing-utilities.js)
  enabledTests,  \* the test functions whose flag in config.components is true
  retryCount,    \* config.general.retryCount
  testResults,   \* this.testResults
  isRunning,     \* this.isRunning
  runIndex,      \* runAllTests: position in TestOrder of the last function invoked
  activeTest,    \* the test function being executed, or NoTest
  checkIndex,    \* position in testChecks of the last check the active function passed
  waiting,       \* the active function awaits the timer of wait(ms)
  runOutcome,    \* settlement of the promise of the runAllTests call that started the run
  testEvents,    \* history: start and end of each test function in the run
  faults,        \* history: checks of the run that did not pass
  runs,          \* history: number of runs started
  ignoredCalls   \* history: runAllTests calls made while a run was going on

replyVars == <<rInput, rEnhanced, rInline>>

browserVars == <<localStorage, now>>

voiceVars == <<speechSupported, isListening, recognition, sessions, voiceTimers,
               inputFields, voiceResults>>

chatVars == <<chatLoaded, chatHistory, analytics, pendingReplies, chatError,
              chatPushed, chatSubmitted, chatReplied, chatClears, chatReloads,
              typingIndicators, voiceVars>>

imageVars == <<genLoaded, generationHistory, genAnalytics, genResult, genError,
               inlineLoaded, inlineError, inlineHistory, inlinePending,
               fnLoaded, imageHistory, isGenerating, fnPending, fnResult,
               genAdded, inlineAdded, fnAdded, generations, genIsGenerating, fnRefused,
               genTried, fnTried>>

secVars == <<secLoaded, csrfToken, suspiciousActivities, isBlocked, blockExpiry,
             requestCount, failedAttempts, blockMessages, unblockTimers,
             countdowns, nextReset, fieldValue, typedText, lastRequest, secError, secInputs>>

testVars == <<enabledTests, retryCount, testResults, isRunning, runIndex, activeTest,
              checkIndex, waiting, runOutcome, testEvents, faults, runs, ignoredCalls>>

vars == <<replyVars, browserVars, chatVars, imageVars, secVars, testVars>>

\* what the reply computation leaves alone
notReply == <<browserVars, chatVars, imageVars, secVars, testVars>>

\* what ValleyBot leaves alone
notChat == <<replyVars, imageVars, secVars, testVars>>

\* what the image generators leave alone
notImage == <<replyVars, chatVars, secVars, testVars>>

\* What the actions of the security layer leave alone.
notSec == <<replyVars, chatVars, imageVars, testVars>>

\* What the test runner leaves alone.
notTest == <<replyVars, browserVars, chatVars, imageVars, secVars>>

NoReply == "(no reply)"

(***************************************************************************)
(* String primitives of the JavaScript runtime.                            *)
(***************************************************************************)
LowerAlpha == <<"a", "b", "c", "d", "e", "f", "g", "h", "i", "j", "k", "l", "m", "n", "o", "p", "q", "r", "s", "t", "u", "v", "w", "x", "y", "z">>

UpperAlpha == <<"A", "B", "C", "D", "E", "F", "G", "H", "I", "J", "K", "L", "M", "N", "O", "P", "Q", "R", "S", "T", "U", "V", "W", "X", "Y", "Z">>

\* String.prototype.toLowerCase, one code unit
toLowerChar(c) ==
  IF \E i \in 1..26 : UpperAlpha[i] = c
    THEN LowerAlpha[CHOOSE i \in 1..26 : UpperAlpha[i] = c]
    ELSE c

\* String.prototype.toLowerCase
toLowerCase(s) == [i \in 1..Len(s) |-> toLowerChar(s[i])]

\* String.prototype.includes: key occurs in s as a contiguous substring
includes(s, key) ==
  \E i \in 0..(Len(s) - Len(key)) : SubSeq(s, i + 1, i + Len(key)) = key

RECURSIVE trimStart(_)
trimStart(s) ==
  IF s # <<>> /\ Head(s) = " " THEN trimStart(Tail(s)) ELSE s

RECURSIVE trimEnd(_)
trimEnd(s) ==
  IF s # <<>> /\ s[Len(s)] = " " THEN trimEnd(SubSeq(s, 1, Len(s) - 1)) ELSE s

\* String.prototype.trim
trim(s) == trimEnd(trimStart(s))

(***************************************************************************)
(* ValleyBot.getEnhancedResponse: the keyword table, in source order, the  *)
(* four keyword groups tested after it, and the default reply.             *)
(***************************************************************************)
enhancedResponses ==
  << [key |-> <<"h", "e", "l", "l", "o">>,
      value |-> "Hey there! Welcome to the Valleytainment vibe!"],
     [key |-> <<"h", "i">>,
      value |-> "What's up! Great to connect with you."],
     [key |-> <<"w", "h", "o", " ", "a", "r", "e", " ", "y", "o", "u">>,
      value |-> "I'm ValleyBot 2.0, the digital brain behind Valleytainment Productions!"],
     [key |-> <<"t", "e", "l", "l", " ", "m", "e", " ", "a", "b", "o", "u", "t", " ", "v", "a", "l", "l", "e", "y", "t", "a", "i", "n", "m", "e", "n", "t">>,
      value |-> "Valleytainment Productions is where creativity meets urban edge!"],
     [key |-> <<"w", "h", "a", "t", " ", "s", "e", "r", "v", "i", "c", "e", "s", " ", "d", "o", " ", "y", "o", "u", " ", "o", "f", "f", "e", "r">>,
      value |-> "We've got a full spectrum of creative services to elevate your vision!"],
     [key |-> <<"h", "o", "w", " ", "c", "a", "n", " ", "i", " ", "c", "o", "l", "l", "a", "b", "o", "r", "a", "t", "e">>,
      value |-> "We're always on the lookout for fresh talent and innovative ideas"],
     [key |-> <<"l", "a", "t", "e", "s", "t", " ", "m", "u", "s", "i", "c", " ", "r", "e", "l", "e", "a", "s", "e", "s">>,
      value |-> "Our studio has been on fire lately!"],
     [key |-> <<"m", "e", "r", "c", "h", "a", "n", "d", "i", "s", "e">>,
      value |-> "Our merch game is strong right now!"],
     [key |-> <<"e", "v", "e", "n", "t", "s">>,
      value |-> "We've got a packed calendar of events coming up!"],
     [key |-> <<"c", "o", "n", "t", "a", "c", "t">>,
      value |-> "Ready to connect with the Valleytainment team?"],
     [key |-> <<"s", "o", "c", "i", "a", "l", " ", "m", "e", "d", "i", "a">>,
      value |-> "Stay connected with all things Valleytainment across our social platforms!"] >>

pricingKeywords ==
  << <<"p", "r", "i", "c", "e">>,
     <<"c", "o", "s", "t">>,
     <<"h", "o", "w", " ", "m", "u", "c", "h">> >>

locationKeywords ==
  << <<"l", "o", "c", "a", "t", "i", "o", "n">>,
     <<"w", "h", "e", "r", "e", " ", "a", "r", "e", " ", "y", "o", "u">>,
     <<"w", "h", "e", "r", "e", " ", "i", "s">> >>

teamKeywords ==
  << <<"t", "e", "a", "m">>,
     <<"s", "t", "a", "f", "f">>,
     <<"w", "h", "o", " ", "w", "o", "r", "k", "s">> >>

historyKeywords ==
  << <<"h", "i", "s", "t", "o", "r", "y">>,
     <<"s", "t", "a", "r", "t", "e", "d">>,
     <<"f", "o", "u", "n", "d", "e", "d">> >>

pricingResponse == "Our pricing varies based on project scope and requirements."

locationResponse == "Valleytainment Productions is headquartered in Los Angeles, California."

teamResponse == "The Valleytainment team is a diverse collective of creative professionals!"

historyResponse == "Valleytainment's story began in 2018"

defaultEnhancedResponse == "Thanks for reaching out to Valleytainment Productions!"

\* for (const [key, value] of Object.entries(table)) if (lower.includes(key)) return value
RECURSIVE scanEntries(_, _, _)
scanEntries(table, lowerMessage, i) ==
  IF i > Len(table) THEN NoReply
  ELSE IF includes(lowerMessage, table[i].key) THEN table[i].value
  ELSE scanEntries(table, lowerMessage, i + 1)

\* lowerMessage.includes(a) || lowerMessage.includes(b) || lowerMessage.includes(c)
includesAny(lowerMessage, keys) ==
  \E i \in 1..Len(keys) : includes(lowerMessage, keys[i])

\* the same scan over the mixed-case message (toLowerCase left out)
getEnhancedResponseNoLower(message) ==
  LET hit == scanEntries(enhancedResponses, message, 1)
  IN  IF hit # NoReply THEN hit
      ELSE IF includesAny(message, pricingKeywords) THEN pricingResponse
      ELSE IF includesAny(message, locationKeywords) THEN locationResponse
      ELSE IF includesAny(message, teamKeywords) THEN teamResponse
      ELSE IF includesAny(message, historyKeywords) THEN historyResponse
      ELSE defaultEnhancedResponse

getEnhancedResponse(message) ==
  LET lowerMessage == toLowerCase(message)
      hit == scanEntries(enhancedResponses, lowerMessage, 1)
  IN  IF hit # NoReply THEN hit
      ELSE IF includesAny(lowerMessage, pricingKeywords) THEN pricingResponse
      ELSE IF includesAny(lowerMessage, locationKeywords) THEN locationResponse
      ELSE IF includesAny(lowerMessage, teamKeywords) THEN teamResponse
      ELSE IF includesAny(lowerMessage, historyKeywords) THEN historyResponse
      ELSE defaultEnhancedResponse

(***************************************************************************)
(* initChatbot.getBotResponse (inline chatbot): table, default, scan.      *)
(***************************************************************************)
responses ==
  << [key |-> <<"h", "e", "l", "l", "o">>,
      value |-> "Hey there! How can I help you with Valleytainment Productions today?"],
     [key |-> <<"h", "i">>,
      value |-> "Hello! What can I do for you today?"],
     [key |-> <<"w", "h", "o", " ", "a", "r", "e", " ", "y", "o", "u">>,
      value |-> "I'm ValleyBot 2.0, your AI assistant for all things Valleytainment."],
     [key |-> <<"t", "e", "l", "l", " ", "m", "e", " ", "a", "b", "o", "u", "t", " ", "v", "a", "l", "l", "e", "y", "t", "a", "i", "n", "m", "e", "n", "t">>,
      value |-> "Valleytainment Productions is a cutting-edge entertainment company"],
     [key |-> <<"w", "h", "a", "t", " ", "s", "e", "r", "v", "i", "c", "e", "s", " ", "d", "o", " ", "y", "o", "u", " ", "o", "f", "f", "e", "r">>,
      value |-> "We offer a wide range of services"],
     [key |-> <<"h", "o", "w", " ", "c", "a", "n", " ", "i", " ", "c", "o", "l", "l", "a", "b", "o", "r", "a", "t", "e">>,
      value |-> "We're always looking for talented individuals and brands to collaborate with!"],
     [key |-> <<"l", "a", "t", "e", "s", "t", " ", "m", "u", "s", "i", "c", " ", "r", "e", "l", "e", "a", "s", "e", "s">>,
      value |-> "Our latest release is Neon Dreams by Maya Johnson"],
     [key |-> <<"m", "e", "r", "c", "h", "a", "n", "d", "i", "s", "e">>,
      value |-> "Check out our merchandise section"],
     [key |-> <<"e", "v", "e", "n", "t", "s">>,
      value |-> "We have several upcoming events"],
     [key |-> <<"c", "o", "n", "t", "a", "c", "t">>,
      value |-> "You can reach us at info@valleytainment.com"],
     [key |-> <<"s", "o", "c", "i", "a", "l", " ", "m", "e", "d", "i", "a">>,
      value |-> "Follow us on Instagram, YouTube, TikTok, and Twitter @valleytainment"] >>

defaultInlineResponse == "I'm not sure how to respond to that."

initChatbot_getBotResponse(message) ==
  LET hit == scanEntries(responses, toLowerCase(message), 1)
  IN  IF hit # NoReply THEN hit ELSE defaultInlineResponse

(***************************************************************************)
(* ValleyBot.getLocalResponse: the keyword table of the error branch of    *)
(* getBotResponse (the replies of the inline table, each with an emoji).   *)
(***************************************************************************)
localResponses ==
  << [key |-> <<"h", "e", "l", "l", "o">>,
      value |-> "Hey there! How can I help you with Valleytainment Productions today? (wave)"],
     [key |-> <<"h", "i">>,
      value |-> "Hello! What can I do for you today? (smile)"],
     [key |-> <<"w", "h", "o", " ", "a", "r", "e", " ", "y", "o", "u">>,
      value |-> "I'm ValleyBot 2.0, your AI assistant for all things Valleytainment. (robot)"],
     [key |-> <<"t", "e", "l", "l", " ", "m", "e", " ", "a", "b", "o", "u", "t", " ", "v", "a", "l", "l", "e", "y", "t", "a", "i", "n", "m", "e", "n", "t">>,
      value |-> "Valleytainment Productions is a cutting-edge entertainment company (clapper)"],
     [key |-> <<"w", "h", "a", "t", " ", "s", "e", "r", "v", "i", "c", "e", "s", " ", "d", "o", " ", "y", "o", "u", " ", "o", "f", "f", "e", "r">>,
      value |-> "We offer a wide range of services (masks)"],
     [key |-> <<"h", "o", "w", " ", "c", "a", "n", " ", "i", " ", "c", "o", "l", "l", "a", "b", "o", "r", "a", "t", "e">>,
      value |-> "We're always looking for talented individuals and brands to collaborate with! (handshake)"],
     [key |-> <<"l", "a", "t", "e", "s", "t", " ", "m", "u", "s", "i", "c", " ", "r", "e", "l", "e", "a", "s", "e", "s">>,
      value |-> "Our latest release is Neon Dreams by Maya Johnson (note)"],
     [key |-> <<"m", "e", "r", "c", "h", "a", "n", "d", "i", "s", "e">>,
      value |-> "Check out our merchandise section (shirt)"],
     [key |-> <<"e", "v", "e", "n", "t", "s">>,
      value |-> "We have several upcoming events (party)"],
     [key |-> <<"c", "o", "n", "t", "a", "c", "t">>,
      value |-> "You can reach us at info@valleytainment.com (phone)"],
     [key |-> <<"s", "o", "c", "i", "a", "l", " ", "m", "e", "d", "i", "a">>,
      value |-> "Follow us on Instagram, YouTube, TikTok, and Twitter @valleytainment (mobile)"] >>

defaultLocalResponse == "I'm not sure how to respond to that. (thinking)"

getLocalResponse(message) ==
  LET hit == scanEntries(localResponses, toLowerCase(message), 1)
  IN  IF hit # NoReply THEN hit ELSE defaultLocalResponse

(***************************************************************************)
(* The browser: localStorage, JSON and Date.                               *)
(*   A stored text is absent (getItem returns null), a text that is not    *)
(*   JSON, or the JSON text of a value. A time is a Date object, the ISO   *)
(*   string of an instant, or null. A counter is a number, NaN or null.    *)
(***************************************************************************)
Absent == [kind |-> "absent"]

Malformed == [kind |-> "malformed"]

JsonText(v) == [kind |-> "json", value |-> v]

\* Storage.prototype.setItem, when it does not throw
setItem(store, key, text) == [store EXCEPT ![key] = text]

\* Storage.prototype.removeItem
removeItem(store, key) == [store EXCEPT ![key] = Absent]

NullTime == [type |-> "null", t |-> 0]

DateObject(t) == [type |-> "Date", t |-> t]

\* Date.prototype.toISOString
toISOString(t) == [type |-> "string", t |-> t]

\* JSON.stringify of a time: Date.prototype.toJSON gives the ISO string
jsonTime(x) == IF x.type = "Date" THEN toISOString(x.t) ELSE x

Num(n) == [type |-> "number", n |-> n]

NaN == [type |-> "NaN", n |-> 0]

NullValue == [type |-> "null", n |-> 0]

Undefined == [type |-> "undefined", n |-> 0]

FunctionValue == [type |-> "function", n |-> 0]

\* JSON.stringify of a number: NaN is written as null
jsonNumber(x) == IF x.type = "NaN" THEN NullValue ELSE x

\* ToBoolean
truthy(x) == x.type = "function" \/ (x.type = "number" /\ x.n # 0)

\* x++ : ToNumber of a function is NaN
increment(x) == IF x.type = "number" THEN Num(x.n + 1) ELSE NaN

K_constructor == <<"c", "o", "n", "s", "t", "r", "u", "c", "t", "o", "r">>

\* obj[key] on a plain object: an own property, else Object.prototype's
getProperty(obj, key) ==
  IF key \in DOMAIN obj THEN obj[key]
  ELSE IF key = K_constructor THEN FunctionValue
  ELSE Undefined

\* obj[key] = value
putProperty(obj, key, value) ==
  [k \in DOMAIN obj \cup {key} |-> IF k = key THEN value ELSE obj[k]]

\* a JavaScript value held where a list is expected: an array or null
List(items) == [isList |-> TRUE, items |-> items]

NullList == [isList |-> FALSE, items |-> <<>>]

\* JSON.stringify of one chat-history entry (all fields are strings)
jsonChatEntry(e) ==
  [role |-> e.role, content |-> e.content, timestamp |-> jsonTime(e.timestamp)]

\* JSON.stringify(this.chatHistory)
stringifyChatHistory(h) ==
  JsonText([isList |-> h.isList,
            items |-> [i \in 1..Len(h.items) |-> jsonChatEntry(h.items[i])]])

\* JSON.stringify(this.analytics)
stringifyAnalytics(a) ==
  JsonText([totalInteractions |-> a.totalInteractions,
            popularQuestions |->
              [k \in DOMAIN a.popularQuestions |-> jsonNumber(a.popularQuestions[k])],
            sessionStartTime |-> jsonTime(a.sessionStartTime),
            lastInteractionTime |-> jsonTime(a.lastInteractionTime)])

(***************************************************************************)
(* ValleyBot: chat history and analytics (advanced-chatbot.js).            *)
(***************************************************************************)
\* CHATBOT_CONFIG.ui.maxHistoryItems
maxHistoryItems == 50

ChatKey == "valleybot_chat_history"

\* CHATBOT_CONFIG.analytics.storageKey
AnalyticsKey == "valleybot_analytics"

\* key of both ValleyImageGenerator and the function-based generator
ImageKey == "valleytainment_image_history"

\* IMAGE_GENERATOR_CONFIG.analytics.storageKey
GenAnalyticsKey == "valleytainment_image_generator_analytics"

\* key of the inline generator
InlineImageKey == "imageHistory"

BlockKey == "valleytainment_security_block"

StorageKeys ==
  {ChatKey, AnalyticsKey, ImageKey, GenAnalyticsKey, InlineImageKey, BlockKey}

NoError == "NoError"

TypeError == "TypeError"

QuotaExceededError == "QuotaExceededError"

\* the object addUserMessage / addBotMessage push on chatHistory
ChatEntry(role, content, t) ==
  [role |-> role, content |-> content, timestamp |-> toISOString(t)]

\* items.slice(0, n), the n oldest entries
sliceFirst(items, n) == SubSeq(items, 1, n)

\* items.slice(-n), the n newest entries
sliceLast(items, n) == SubSeq(items, Len(items) - n + 1, Len(items))

\* saveChatHistory, "Limit history length"
limitHistory(items) ==
  IF Len(items) > maxHistoryItems THEN sliceLast(items, maxHistoryItems) ELSE items

\* addUserMessage / addBotMessage: push the entry, then saveChatHistory.
\* push throws on a history that is not a list; setItem throws when `ok`
\* is false, after the entry was pushed and the list was limited.
addMessage(h, store, role, content, t, ok) ==
  IF ~h.isList
    THEN [history |-> h, store |-> store, pushed |-> FALSE, error |-> TypeError]
    ELSE LET limited == List(limitHistory(Append(h.items, ChatEntry(role, content, t))))
         IN  IF ok
               THEN [history |-> limited,
                     store |-> setItem(store, ChatKey, stringifyChatHistory(limited)),
                     pushed |-> TRUE, error |-> NoError]
               ELSE [history |-> limited, store |-> store,
                     pushed |-> TRUE, error |-> QuotaExceededError]

\* loadChatHistory: the parsed value whatever it is, [] when parsing throws,
\* and the constructor's [] when nothing is stored
loadChatHistory(store) ==
  LET savedHistory == store[ChatKey]
  IN  IF savedHistory.kind = "json" THEN savedHistory.value ELSE List(<<>>)

\* the analytics object the constructor creates
newAnalytics(t) ==
  [totalInteractions |-> Num(0),
   popularQuestions |-> <<>>,
   sessionStartTime |-> DateObject(t),
   lastInteractionTime |-> NullTime]

\* loadAnalytics: the parsed object with a fresh sessionStartTime; the
\* constructor's object when nothing is stored or parsing throws
loadAnalytics(store, t) ==
  LET savedAnalytics == store[AnalyticsKey]
  IN  IF savedAnalytics.kind = "json"
        THEN [savedAnalytics.value EXCEPT !.sessionStartTime = DateObject(t)]
        ELSE newAnalytics(t)

\* trackInteraction, up to saveAnalytics
trackInteraction(a, message, t) ==
  LET simplifiedMessage == trim(toLowerCase(message))
      count == getProperty(a.popularQuestions, simplifiedMessage)
  IN  [a EXCEPT !.totalInteractions = increment(@),
                !.lastInteractionTime = DateObject(t),
                !.popularQuestions =
                   putProperty(@, simplifiedMessage,
                               IF truthy(count) THEN increment(count) ELSE Num(1))]

\* Date.prototype.getHours, the clock counting in hours
getHours(t) == t % 24

\* getWelcomeMessage: the greeting depends on the hour of the day
getWelcomeMessage(t) ==
  LET hour == getHours(t)
      greeting == IF hour < 12 THEN "Good morning"
                  ELSE IF hour < 18 THEN "Good afternoon"
                  ELSE "Good evening"
  IN  <<greeting, "! I'm ValleyBot, your AI assistant for Valleytainment Productions.">>

\* showTypingIndicator: one more element 'typing-indicator' in the main chat
showTypingIndicator(n) == n + 1

\* hideTypingIndicator: the element getElementById finds, if any, is removed
hideTypingIndicator(n) == IF n > 0 THEN n - 1 ELSE 0

\* clearChatHistory as it would be if it did not add the welcome message
clearWithoutWelcome(store, t, ok) ==
  [history |-> List(<<>>), store |-> removeItem(store, ChatKey),
   pushed |-> FALSE, error |-> NoError]

\* clearChatHistory: chatHistory = [], removeItem, then
\* addBotMessage(getWelcomeMessage()), which pushes and saves
clearChatHistory(store, t, ok) ==
  addMessage(List(<<>>), removeItem(store, ChatKey), "assistant", getWelcomeMessage(t), t, ok)

(***************************************************************************)
(* The image generators: prompts, URLs and history lists                   *)
(* (ValleyImageGenerator; initAIImageGenerator; initImageGenerator).       *)
(***************************************************************************)
\* UTF-16 code units of a surrogate pair; a prompt may hold one without the other
HighSurrogate == "\\uD83C"

LowSurrogate == "\\uDFA8"

\* no high surrogate without the low one after it, no low one without the high one before it
isWellFormed(s) ==
  \A i \in 1..Len(s) :
    /\ s[i] = HighSurrogate => (i < Len(s) /\ s[i + 1] = LowSurrogate)
    /\ s[i] = LowSurrogate => (i > 1 /\ s[i - 1] = HighSurrogate)

\* encodeURIComponent of one code unit, or of one configured text the code
\* passes through whole: unreserved characters stay, the others are escaped
\* (the four bytes of a surrogate pair are written at its high surrogate)
encodeUnit(c) ==
  IF c = " " THEN "%20"
  ELSE IF c = "," THEN "%2C"
  ELSE IF c = HighSurrogate THEN "%F0%9F%8E%A8"
  ELSE IF c = LowSurrogate THEN ""
  ELSE IF c = "Valleytainment style, high quality, detailed"
    THEN "Valleytainment%20style%2C%20high%20quality%2C%20detailed"
  ELSE IF c = "neon lights, urban aesthetic, vibrant colors, city nightlife, cyberpunk influence"
    THEN "neon%20lights%2C%20urban%20aesthetic%2C%20vibrant%20colors%2C%20city%20nightlife%2C%20cyberpunk%20influence"
  ELSE IF c = "ultra realistic, highly detailed, 8k, photorealistic"
    THEN "ultra%20realistic%2C%20highly%20detailed%2C%208k%2C%20photorealistic"
  ELSE c

URIError == "URIError"

\* encodeURIComponent: throws URIError on a lone surrogate
encodeURIComponent(s) ==
  IF isWellFormed(s)
    THEN [error |-> NoError, text |-> [i \in 1..Len(s) |-> encodeUnit(s[i])]]
    ELSE [error |-> URIError, text |-> <<>>]

\* ValleyImageGenerator.enhancePrompt with the default style 'neon-urban'
enhancePrompt(prompt) ==
  <<"Valleytainment style, high quality, detailed", ",", " ">>
    \o prompt
    \o <<",", " ",
         "neon lights, urban aesthetic, vibrant colors, city nightlife, cyberpunk influence">>

NoResult == [kind |-> "none", url |-> <<>>]

Resolved(url) == [kind |-> "url", url |-> url]

Rejected == [kind |-> "error", url |-> <<>>]

\* IMAGE_GENERATOR_CONFIG.api.endpoints
configEndpoints ==
  <<[name |-> "pollinations", priority |-> 1],
    [name |-> "stability", priority |-> 2],
    [name |-> "huggingface", priority |-> 3]>>

RECURSIVE insertDescending(_, _)
insertDescending(sorted, e) ==
  IF sorted = <<>> THEN <<e>>
  ELSE IF Head(sorted).priority - e.priority < 0 THEN <<e>> \o sorted
  ELSE <<Head(sorted)>> \o insertDescending(Tail(sorted), e)

\* the sort as it would be with the comparator (a, b) => b.priority - a.priority
RECURSIVE sortByPriorityDescending(_)
sortByPriorityDescending(list) ==
  IF list = <<>> THEN <<>>
  ELSE insertDescending(sortByPriorityDescending(SubSeq(list, 1, Len(list) - 1)),
                        list[Len(list)])

\* e placed behind the entries it does not compare lower than (the sort is stable)
RECURSIVE insertAscending(_, _)
insertAscending(sorted, e) ==
  IF sorted = <<>> THEN <<e>>
  ELSE IF e.priority - Head(sorted).priority < 0 THEN <<e>> \o sorted
  ELSE <<Head(sorted)>> \o insertAscending(Tail(sorted), e)

\* [...endpoints].sort((a, b) => a.priority - b.priority)
RECURSIVE sortByPriority(_)
sortByPriority(list) ==
  IF list = <<>> THEN <<>>
  ELSE insertAscending(sortByPriority(SubSeq(list, 1, Len(list) - 1)), list[Len(list)])

\* the names of the endpoints in the order fetchGeneratedImage goes through them
endpoints == [i \in 1..Len(configEndpoints) |-> sortByPriority(configEndpoints)[i].name]

\* IMAGE_GENERATOR_CONFIG.api.useLocalFallback
useLocalFallback == TRUE

\* one round of the loop of fetchGeneratedImage: what endpoint `name` returns,
\* NoResult when the round ends without a return (nothing done, or caught)
tryEndpoint(name, prompt, t) ==
  IF name = "pollinations"
    THEN LET encodedPrompt == encodeURIComponent(prompt)
         IN  IF encodedPrompt.error # NoError THEN NoResult
             ELSE Resolved(<<"https://image.pollinations.ai/prompt/">> \o encodedPrompt.text
                             \o <<"?width=512&height=512", "&nologo=true", "&t=", ToString(t)>>)
  ELSE IF name = "local" /\ useLocalFallback
    THEN Resolved(<<"data:image/png;base64,", "local canvas rendering">>)
  ELSE NoResult

\* ValleyImageGenerator.fetchGeneratedImage: the first endpoint that returns,
\* else the Error 'All image generation endpoints failed'
RECURSIVE fetchFrom(_, _, _)
fetchFrom(i, prompt, t) ==
  IF i > Len(endpoints) THEN Rejected
  ELSE LET r == tryEndpoint(endpoints[i], prompt, t)
       IN  IF r # NoResult THEN r ELSE fetchFrom(i + 1, prompt, t)

fetchGeneratedImage(prompt, t) == fetchFrom(1, prompt, t)

\* the endpoints the loop of fetchGeneratedImage went through, up to the one that returned
RECURSIVE triedFrom(_, _, _)
triedFrom(i, prompt, t) ==
  IF i > Len(endpoints) THEN <<>>
  ELSE <<endpoints[i]>>
         \o (IF tryEndpoint(endpoints[i], prompt, t) # NoResult THEN <<>>
             ELSE triedFrom(i + 1, prompt, t))

endpointsTried(prompt, t) == triedFrom(1, prompt, t)

\* IMAGE_GENERATOR_CONFIG.generator.maxHistoryItems
genMaxHistoryItems == 10

\* the literal 8 of the inline addToImageHistory
inlineMaxHistory == 8

\* imageGeneratorConfig.maxHistory
maxHistory == 10

\* Array.prototype.unshift
unshift(items, e) == <<e>> \o items

\* items.slice(0, n): the first n elements, all of them when there are fewer
slice0(items, n) == SubSeq(items, 1, IF Len(items) < n THEN Len(items) ELSE n)

\* Array.prototype.shift: the list without its first element
shift(items) == Tail(items)

\* Array.prototype.pop: the list without its last element
pop(items) == SubSeq(items, 1, Len(items) - 1)

\* the entry of ValleyImageGenerator.addToHistory / the function-based addToImageHistory
ImageEntry(prompt, imageUrl, style, t) ==
  [prompt |-> prompt, imageUrl |-> imageUrl, style |-> style, timestamp |-> toISOString(t)]

\* ValleyImageGenerator.addToHistory, up to saveGenerationHistory
addToHistory(items, e) ==
  LET added == unshift(items, e)
  IN  IF Len(added) > genMaxHistoryItems THEN slice0(added, genMaxHistoryItems) ELSE added

\* initAIImageGenerator.addToImageHistory, up to localStorage.setItem
inlineAddToImageHistory(items, e) ==
  LET added == unshift(items, e)
  IN  IF Len(added) > inlineMaxHistory THEN slice0(added, inlineMaxHistory) ELSE added

\* addToImageHistory of the function-based generator, up to saveImageHistory
addToImageHistory(items, e) ==
  LET added == unshift(items, e)
  IN  IF Len(added) > maxHistory THEN pop(added) ELSE added

\* the entry of the function-based addToImageHistory
FnImageEntry(imageUrl, prompt, style, size, t) ==
  [imageUrl |-> imageUrl, prompt |-> prompt, style |-> style, size |-> size,
   timestamp |-> toISOString(t)]

\* the entry of initAIImageGenerator.addToImageHistory
InlineImageEntry(prompt, style, url, t) ==
  [id |-> t, prompt |-> prompt, style |-> style, url |-> url, date |-> toISOString(t)]

\* JSON.stringify(this.generationHistory), JSON.stringify(imageHistory)
stringifyImageHistory(h) ==
  JsonText([isList |-> h.isList,
            items |-> [i \in 1..Len(h.items) |->
                         [h.items[i] EXCEPT !.timestamp = jsonTime(@)]]])

\* JSON.stringify(imageHistory) of the inline generator
stringifyInlineHistory(h) ==
  JsonText([isList |-> h.isList,
            items |-> [i \in 1..Len(h.items) |-> [h.items[i] EXCEPT !.date = jsonTime(@)]]])

\* the analytics object the ValleyImageGenerator constructor creates
newGenAnalytics(t) ==
  [totalGenerations |-> Num(0),
   popularPrompts |-> <<>>,
   popularStyles |-> <<>>,
   sessionStartTime |-> DateObject(t),
   lastGenerationTime |-> NullTime]

\* ValleyImageGenerator.loadAnalytics
loadGenAnalytics(store, t) ==
  LET savedAnalytics == store[GenAnalyticsKey]
  IN  IF savedAnalytics.kind = "json"
        THEN [savedAnalytics.value EXCEPT !.sessionStartTime = DateObject(t)]
        ELSE newGenAnalytics(t)

\* counts[key]++ when counts[key] is truthy, else counts[key] = 1
countUp(counts, key) ==
  LET count == getProperty(counts, key)
  IN  putProperty(counts, key, IF truthy(count) THEN increment(count) ELSE Num(1))

\* ValleyImageGenerator.trackGeneration, up to saveAnalytics
trackGeneration(a, prompt, style, t) ==
  [a EXCEPT !.totalGenerations = increment(@),
            !.lastGenerationTime = DateObject(t),
            !.popularPrompts = countUp(@, trim(toLowerCase(prompt))),
            !.popularStyles = countUp(@, <<style>>)]

\* JSON.stringify(this.analytics) of ValleyImageGenerator
stringifyGenAnalytics(a) ==
  JsonText([totalGenerations |-> a.totalGenerations,
            popularPrompts |-> [k \in DOMAIN a.popularPrompts |-> jsonNumber(a.popularPrompts[k])],
            popularStyles |-> [k \in DOMAIN a.popularStyles |-> jsonNumber(a.popularStyles[k])],
            sessionStartTime |-> jsonTime(a.sessionStartTime),
            lastGenerationTime |-> jsonTime(a.lastGenerationTime)])

\* loadGenerationHistory: the parsed value, [] when nothing is stored or parsing throws
loadGenerationHistory(store) ==
  LET savedHistory == store[ImageKey]
  IN  IF savedHistory.kind = "json" THEN savedHistory.value ELSE List(<<>>)

\* loadImageHistory of the function-based generator: the same outcomes
loadImageHistory(store) ==
  LET savedHistory == store[ImageKey]
  IN  IF savedHistory.kind = "json" THEN savedHistory.value ELSE List(<<>>)

SyntaxError == "SyntaxError"

\* JSON.parse(localStorage.getItem('imageHistory')) || [] : JSON.parse throws
\* on a text that is not JSON; null (nothing stored, or JSON null) gives []
inlineLoadHistory(store) ==
  LET text == store[InlineImageKey]
  IN  IF text.kind = "malformed" THEN [error |-> SyntaxError, history |-> List(<<>>)]
      ELSE IF text.kind = "json" /\ text.value.isList
        THEN [error |-> NoError, history |-> text.value]
      ELSE [error |-> NoError, history |-> List(<<>>)]

(***************************************************************************)
(* SecurityManager: input sanitising, attack detection, activity log and   *)
(* blocking. A regular expression is the sequence of its elements: a       *)
(* literal character (lower case, every pattern carries flag i) or one of  *)
(* the quantified classes \s*, \s+, \w+, \d+ and .*                        *)
(***************************************************************************)
maxRequestsPerMinute == 60

maxFailedAttempts == 5

blockThreshold == 10

blockDuration == 300

protectedMethods == {"POST", "PUT", "DELETE", "PATCH"}

Digits == {"0", "1", "2", "3", "4", "5", "6", "7", "8", "9"}

ClassTokens == {"\\s*", "\\s+", "\\w+", "\\d+", ".*"}

\* least number of characters a quantified class consumes
least(e) == IF e \in {"\\s*", ".*"} THEN 0 ELSE 1

inClass(e, c) ==
  IF e \in {"\\s*", "\\s+"} THEN c \in {" ", "\t", "\n"}
  ELSE IF e = "\\w+"
    THEN \/ c \in Digits \/ c = "_"
         \/ \E n \in 1..Len(LowerAlpha) : c = LowerAlpha[n] \/ c = UpperAlpha[n]
  ELSE IF e = "\\d+" THEN c \in Digits
  ELSE c # "\n"

\* the elements of p from the i-th on match s from position j on
RECURSIVE matchHere(_, _, _, _)
matchHere(p, i, s, j) ==
  IF i > Len(p) THEN TRUE
  ELSE IF p[i] \in ClassTokens
    THEN \E k \in (j + least(p[i]))..(Len(s) + 1) :
           /\ \A m \in j..(k - 1) : inClass(p[i], s[m])
           /\ matchHere(p, i + 1, s, k)
  ELSE /\ j <= Len(s)
       /\ toLowerChar(s[j]) = p[i]
       /\ matchHere(p, i + 1, s, j + 1)

\* RegExp.prototype.test without flag g: a match starting anywhere
test(p, s) == \E j \in 1..(Len(s) + 1) : matchHere(p, 1, s, j)

\* for (const pattern of patterns) if (pattern.test(input)) ...
testAny(patterns, s) == \E n \in 1..Len(patterns) : test(patterns[n], s)

\* sanitizeInput: xssPatterns, each with flag i
xssPatterns ==
  << <<"j", "a", "v", "a", "s", "c", "r", "i", "p", "t", ":">>,
     <<"d", "a", "t", "a", ":", "t", "e", "x", "t", "/", "h", "t", "m", "l">>,
     <<"v", "b", "s", "c", "r", "i", "p", "t", ":">>,
     <<"o", "n", "e", "r", "r", "o", "r", "=">>,
     <<"o", "n", "l", "o", "a", "d", "=">>,
     <<"o", "n", "c", "l", "i", "c", "k", "=">>,
     <<"o", "n", "m", "o", "u", "s", "e", "o", "v", "e", "r", "=">>,
     <<"o", "n", "f", "o", "c", "u", "s", "=">>,
     <<"o", "n", "b", "l", "u", "r", "=">>,
     <<"a", "l", "e", "r", "t", "\\s*", "(">>,
     <<"d", "o", "c", "u", "m", "e", "n", "t", ".", "c", "o", "o", "k", "i", "e">>,
     <<"d", "o", "c", "u", "m", "e", "n", "t", ".", "l", "o", "c", "a", "t", "i", "o", "n">>,
     <<"d", "o", "c", "u", "m", "e", "n", "t", ".", "w", "r", "i", "t", "e">>,
     <<"l", "o", "c", "a", "l", "s", "t", "o", "r", "a", "g", "e">>,
     <<"s", "e", "s", "s", "i", "o", "n", "s", "t", "o", "r", "a", "g", "e">>,
     <<"e", "v", "a", "l", "\\s*", "(">>,
     <<"s", "e", "t", "t", "i", "m", "e", "o", "u", "t", "\\s*", "(">>,
     <<"s", "e", "t", "i", "n", "t", "e", "r", "v", "a", "l", "\\s*", "(">>,
     <<"n", "e", "w", "\\s+", "f", "u", "n", "c", "t", "i", "o", "n">> >>

\* detectSqlInjection: sqlPatterns, each with flag i
sqlPatterns ==
  << <<"'", "\\s*", "o", "r", "\\s*", "'", "1", "'", "\\s*", "=", "\\s*", "'", "1">>,
     <<"'", "\\s*", "o", "r", "\\s*", "1", "\\s*", "=", "\\s*", "1">>,
     <<"'", "\\s*", "o", "r", "\\s*", "'", "\\w+", "'", "\\s*", "=", "\\s*", "'", "\\w+">>,
     <<"'", "\\s*", "o", "r", "\\s*", "\\d+", "\\s*", "=", "\\s*", "\\d+">>,
     <<"'", "\\s*", ";", "\\s*", "d", "r", "o", "p", "\\s+", "t", "a", "b", "l", "e">>,
     <<"'", "\\s*", ";", "\\s*", "d", "e", "l", "e", "t", "e", "\\s+", "f", "r", "o", "m">>,
     <<"'", "\\s*", ";", "\\s*", "i", "n", "s", "e", "r", "t", "\\s+", "i", "n", "t", "o">>,
     <<"'", "\\s*", ";", "\\s*", "u", "p", "d", "a", "t", "e", "\\s+">>,
     <<"'", "\\s*", ";", "\\s*", "s", "e", "l", "e", "c", "t", "\\s+">>,
     <<"u", "n", "i", "o", "n", "\\s+", "s", "e", "l", "e", "c", "t">>,
     <<"u", "n", "i", "o", "n", "\\s+", "a", "l", "l", "\\s+", "s", "e", "l", "e", "c", "t">>,
     <<"s", "e", "l", "e", "c", "t", "\\s+", ".*", "\\s+", "f", "r", "o", "m">>,
     <<"a", "l", "t", "e", "r", "\\s+", "t", "a", "b", "l", "e">>,
     <<"e", "x", "e", "c", "\\s*", "(">>,
     <<"e", "x", "e", "c", "u", "t", "e", "\\s*", "(">>,
     <<"w", "a", "i", "t", "f", "o", "r", "\\s+", "d", "e", "l", "a", "y">>,
     <<"c", "a", "s", "t", "\\s*", "(">>,
     <<"c", "o", "n", "v", "e", "r", "t", "\\s*", "(">> >>

\* detectCommonAttackPatterns: attackPatterns, each with flag i
attackPatterns ==
  << <<"<", "s", "c", "r", "i", "p", "t">>,
     <<"j", "a", "v", "a", "s", "c", "r", "i", "p", "t", ":">>,
     <<"d", "a", "t", "a", ":", "t", "e", "x", "t", "/", "h", "t", "m", "l">>,
     <<"v", "b", "s", "c", "r", "i", "p", "t", ":">>,
     <<"o", "n", "l", "o", "a", "d", "=">>,
     <<"o", "n", "e", "r", "r", "o", "r", "=">>,
     <<"o", "n", "c", "l", "i", "c", "k", "=">>,
     <<"o", "n", "m", "o", "u", "s", "e", "o", "v", "e", "r", "=">>,
     <<"o", "n", "f", "o", "c", "u", "s", "=">>,
     <<"o", "n", "b", "l", "u", "r", "=">>,
     <<"a", "l", "e", "r", "t", "\\s*", "(">>,
     <<"p", "r", "o", "m", "p", "t", "\\s*", "(">>,
     <<"c", "o", "n", "f", "i", "r", "m", "\\s*", "(">>,
     <<"e", "v", "a", "l", "\\s*", "(">>,
     <<"d", "o", "c", "u", "m", "e", "n", "t", ".", "c", "o", "o", "k", "i", "e">>,
     <<"d", "o", "c", "u", "m", "e", "n", "t", ".", "l", "o", "c", "a", "t", "i", "o", "n">>,
     <<"d", "o", "c", "u", "m", "e", "n", "t", ".", "w", "r", "i", "t", "e">>,
     <<"l", "o", "c", "a", "l", "s", "t", "o", "r", "a", "g", "e">>,
     <<"s", "e", "s", "s", "i", "o", "n", "s", "t", "o", "r", "a", "g", "e">>,
     <<"s", "e", "t", "t", "i", "m", "e", "o", "u", "t", "\\s*", "(">>,
     <<"s", "e", "t", "i", "n", "t", "e", "r", "v", "a", "l", "\\s*", "(">>,
     <<"n", "e", "w", "\\s+", "f", "u", "n", "c", "t", "i", "o", "n">>,
     <<".", ".", "/">>,
     <<"/", "e", "t", "c", "/", "p", "a", "s", "s", "w", "d">>,
     <<"/", "b", "i", "n", "/", "b", "a", "s", "h">>,
     <<"c", "m", "d", ".", "e", "x", "e">>,
     <<"p", "o", "w", "e", "r", "s", "h", "e", "l", "l", ".", "e", "x", "e">>,
     <<"s", "y", "s", "t", "e", "m", "\\s*", "(">>,
     <<"e", "x", "e", "c", "\\s*", "(">>,
     <<"s", "h", "e", "l", "l", "_", "e", "x", "e", "c", "\\s*", "(">>,
     <<"p", "a", "s", "s", "t", "h", "r", "u", "\\s*", "(">>,
     <<"p", "r", "o", "c", "_", "o", "p", "e", "n", "\\s*", "(">>,
     <<"p", "o", "p", "e", "n", "\\s*", "(">>,
     <<"c", "u", "r", "l", "\\s+">>,
     <<"w", "g", "e", "t", "\\s+">>,
     <<"n", "c", "\\s+">>,
     <<"n", "e", "t", "c", "a", "t", "\\s+">>,
     <<"p", "i", "n", "g", "\\s+">>,
     <<"t", "r", "a", "c", "e", "r", "o", "u", "t", "e", "\\s+">>,
     <<"n", "s", "l", "o", "o", "k", "u", "p", "\\s+">> >>


\* the six replace calls of sanitizeInput; & is replaced first, so the
\* entities written by the later calls are not escaped again
escapeChar(c) ==
  CASE c = "&" -> <<"&", "a", "m", "p", ";">>
    [] c = "<" -> <<"&", "l", "t", ";">>
    [] c = ">" -> <<"&", "g", "t", ";">>
    [] c = "\"" -> <<"&", "q", "u", "o", "t", ";">>
    [] c = "'" -> <<"&", "#", "x", "2", "7", ";">>
    [] c = "/" -> <<"&", "#", "x", "2", "F", ";">>
    [] OTHER -> <<c>>

RECURSIVE escapeHtml(_)
escapeHtml(s) == IF s = <<>> THEN <<>> ELSE escapeChar(Head(s)) \o escapeHtml(Tail(s))

Removed == <<"[", "r", "e", "m", "o", "v", "e", "d", " ", "f", "o", "r", " ", "s", "e", "c", "u", "r", "i", "t", "y", "]">>

\* sanitizeInput as it would be if the patterns were tested on the escaped text
sanitizeInputTestsEscaped(input) ==
  IF input = <<>> THEN [value |-> input, xss |-> FALSE]
  ELSE IF testAny(xssPatterns, escapeHtml(input)) THEN [value |-> Removed, xss |-> TRUE]
  ELSE [value |-> escapeHtml(input), xss |-> FALSE]

\* sanitizeInput: the patterns are tested on the input as typed, not on the
\* escaped text; xss tells whether 'Potential XSS attack' was logged
sanitizeInput(input) ==
  IF input = <<>> THEN [value |-> input, xss |-> FALSE]
  ELSE IF testAny(xssPatterns, input) THEN [value |-> Removed, xss |-> TRUE]
  ELSE [value |-> escapeHtml(input), xss |-> FALSE]

detectSqlInjection(input) == input # <<>> /\ testAny(sqlPatterns, input)

detectCommonAttackPatterns(input) == input # <<>> /\ testAny(attackPatterns, input)

\* The fields of the manager and the globals its methods write, as one
\* record m that the methods below take and return; error is the exception
\* that escaped the method.
logSuspiciousActivity(m, type, details, t) ==
  [m EXCEPT !.log = Append(@, [type |-> type, details |-> details,
                               timestamp |-> toISOString(t)])]

\* blockUser: the setItem call may throw, and then neither the overlay is
\* shown nor the timer set
blockUser(m, t, ok) ==
  LET b == [m EXCEPT !.isBlocked = TRUE, !.blockExpiry = DateObject(t + blockDuration)]
  IN  IF ~ok THEN [b EXCEPT !.error = QuotaExceededError]
      ELSE [b EXCEPT !.store = setItem(@, BlockKey,
                        JsonText([blocked |-> TRUE,
                                  expiry |-> toISOString(t + blockDuration)])),
                     !.blockMessages = @ + 1,
                     !.countdowns = @ + 1,
                     !.unblockTimers = Append(@, t + blockDuration)]

\* unblockUser as it would be if it also emptied the log
unblockUserClearsLog(m) ==
  [m EXCEPT !.isBlocked = FALSE, !.blockExpiry = NullTime,
            !.store = removeItem(@, BlockKey),
            !.blockMessages = IF @ > 0 THEN @ - 1 ELSE 0,
            !.log = <<>>]

unblockUser(m) ==
  [m EXCEPT !.isBlocked = FALSE, !.blockExpiry = NullTime,
            !.store = removeItem(@, BlockKey),
            !.blockMessages = IF @ > 0 THEN @ - 1 ELSE 0]

checkRequestRate(m, t, ok) ==
  IF m.requestCount > maxRequestsPerMinute
    THEN LET l == logSuspiciousActivity(m, "Excessive request rate",
                    <<ToString(m.requestCount), " requests in one minute">>, t)
         IN  IF Len(l.log) >= blockThreshold THEN blockUser(l, t, ok) ELSE l
  ELSE m

checkFailedAttempts(m, t, ok) ==
  IF m.failedAttempts >= maxFailedAttempts
    THEN LET l == logSuspiciousActivity(m, "Excessive failed attempts",
                    <<ToString(m.failedAttempts), " failed attempts">>, t)
             b == IF Len(l.log) >= blockThreshold THEN blockUser(l, t, ok) ELSE l
         IN  IF b.error # NoError THEN b ELSE [b EXCEPT !.failedAttempts = 0]
  ELSE m

XssText == <<"j", "a", "v", "a", "s", "c", "r", "i", "p", "t", ":">>

SqlText == <<"e", "x", "e", "c", "(">>

PlainText == <<"h", "i">>

InputValues == {XssText, SqlText, PlainText}

\* sanitizeInput, detectSqlInjection and detectCommonAttackPatterns on the
\* texts a field can hold (typed, or written back by sanitizeInput),
\* evaluated once
Sanitized == [v \in InputValues |-> sanitizeInput(v)]

FieldTexts == InputValues \cup {Sanitized[v].value : v \in InputValues}

IsSqlInjection == [v \in FieldTexts |-> detectSqlInjection(v)]

IsAttackPattern == [v \in FieldTexts |-> detectCommonAttackPatterns(v)]

\* The listeners of an input event on a text field, in the order init()
\* registered them: initXssProtection replaces the value of the field, then
\* initActivityMonitoring inspects the value it finds there.
inputListeners(m, typed, t, ok) ==
  LET value == Sanitized[typed].value
      x == IF Sanitized[typed].xss
             THEN logSuspiciousActivity(m, "Potential XSS attack", typed, t) ELSE m
      a == IF IsSqlInjection[value]
             THEN checkFailedAttempts(
                    [logSuspiciousActivity(x, "Potential SQL injection in input", value, t)
                       EXCEPT !.failedAttempts = @ + 1], t, ok)
           ELSE x
      b == IF a.error # NoError THEN a
           ELSE IF IsAttackPattern[value]
             THEN checkFailedAttempts(
                    [logSuspiciousActivity(a, "Potential attack pattern in input", value, t)
                       EXCEPT !.failedAttempts = @ + 1], t, ok)
           ELSE a
  IN  [m |-> b, fields |-> <<value>>]

\* submit listener of initXssProtection: inputs.forEach(input => input.value = sanitizeInput(...))
RECURSIVE sanitizeFields(_, _, _)
sanitizeFields(m, fields, t) ==
  IF fields = <<>> THEN m
  ELSE sanitizeFields(IF Sanitized[Head(fields)].xss
                        THEN logSuspiciousActivity(m, "Potential XSS attack", Head(fields), t)
                      ELSE m,
                      Tail(fields), t)

\* submit listener of initFormValidation, default branch of the switch (text fields)
RECURSIVE validateFields(_, _, _)
validateFields(m, fields, t) ==
  IF fields = <<>> THEN m
  ELSE validateFields(
         IF IsSqlInjection[Head(fields)] /\ IsAttackPattern[Head(fields)]
           THEN logSuspiciousActivity(
                  logSuspiciousActivity(m, "Potential SQL injection", Head(fields), t),
                  "Potential attack pattern", Head(fields), t)
         ELSE IF IsSqlInjection[Head(fields)]
           THEN logSuspiciousActivity(m, "Potential SQL injection", Head(fields), t)
         ELSE IF IsAttackPattern[Head(fields)]
           THEN logSuspiciousActivity(m, "Potential attack pattern", Head(fields), t)
         ELSE m,
         Tail(fields), t)

\* click and submit listeners of initActivityMonitoring
countRequest(m, t, ok) == checkRequestRate([m EXCEPT !.requestCount = @ + 1], t, ok)

\* The listeners of a submit event, in registration order: initXssProtection,
\* initCsrfProtection (a hidden field, not kept in the state),
\* initFormValidation, initActivityMonitoring.
submitListeners(m, fields, t, ok) ==
  LET written == [n \in 1..Len(fields) |-> Sanitized[fields[n]].value]
  IN  [m |-> countRequest(validateFields(sanitizeFields(m, fields, t), written, t), t, ok),
       fields |-> written]

\* The wrappers installed on window.fetch and XMLHttpRequest.prototype.send
\* are function expressions: inside them this is the receiver of the call
\* (undefined or window for fetch, the request object for send), and only
\* the SecurityManager has the members they read.
ThisOfFetch == {"undefined", "window"}

ThisOfSend == "XMLHttpRequest"

hasManagerMembers(thisValue) == thisValue = "SecurityManager"

NoHeader == "(no header)"

NoRequest == [api |-> "none", method |-> "none", error |-> NoError,
              sent |-> FALSE, header |-> NoHeader]

\* the wrapper initCsrfProtection installs: this.config.csrf is read for
\* every method (for send, once open() has stored the method)
csrfWrapper(api, thisValue, method, token) ==
  IF ~hasManagerMembers(thisValue)
    THEN [api |-> api, method |-> method, error |-> TypeError,
          sent |-> FALSE, header |-> NoHeader]
  ELSE [api |-> api, method |-> method, error |-> NoError, sent |-> TRUE,
        header |-> IF method \in protectedMethods THEN token ELSE NoHeader]

\* the wrapper initActivityMonitoring installs over it: this.requestCount++,
\* this.checkRequestRate(), then the wrapped function with the same this
wrappedRequest(api, thisValue, method, token) ==
  IF ~hasManagerMembers(thisValue)
    THEN [api |-> api, method |-> method, error |-> TypeError,
          sent |-> FALSE, header |-> NoHeader]
  ELSE csrfWrapper(api, thisValue, method, token)

(***************************************************************************)
(* TestingUtilities (testing-utilities.js): the result counters and the    *)
(* eight test functions. Every test function runs its body inside try and  *)
(* logs FAILED from its catch block, so none of them rejects.              *)
(***************************************************************************)
TestOrder ==
  << "testNavigation",
     "testAnimations",
     "testResponsiveness",
     "testForms",
     "testChatbot",
     "testImageGenerator",
     "testSecurity",
     "testPerformance" >>

\* the results each test function can log, in source order: the name, the
\* statuses the source logs under it, and whether a wait(ms) precedes it
testChecks ==
  [ testNavigation |->
      << [name |-> "Navigation Links", statuses |-> {"PASSED", "FAILED"}, wait |-> FALSE],
         [name |-> "Mobile Menu Open", statuses |-> {"PASSED", "FAILED"}, wait |-> TRUE],
         [name |-> "Mobile Menu Close", statuses |-> {"PASSED", "FAILED"}, wait |-> TRUE],
         [name |-> "Mobile Menu", statuses |-> {"SKIPPED"}, wait |-> FALSE],
         [name |-> "Smooth Scrolling", statuses |-> {"PASSED", "FAILED", "SKIPPED"}, wait |-> TRUE] >>,
    testAnimations |->
      << [name |-> "Scroll Animations", statuses |-> {"PASSED", "FAILED", "SKIPPED"}, wait |-> TRUE],
         [name |-> "Hover Animations", statuses |-> {"PASSED", "FAILED", "SKIPPED"}, wait |-> TRUE],
         [name |-> "Particle Animations", statuses |-> {"PASSED", "FAILED", "SKIPPED"}, wait |-> FALSE] >>,
    testResponsiveness |->
      << [name |-> "Viewport Meta Tag", statuses |-> {"PASSED", "FAILED"}, wait |-> FALSE],
         [name |-> "Responsive Images", statuses |-> {"PASSED", "FAILED", "SKIPPED"}, wait |-> FALSE],
         [name |-> "Responsive Layout", statuses |-> {"PASSED", "FAILED"}, wait |-> TRUE],
         [name |-> "Media Queries", statuses |-> {"PASSED", "FAILED"}, wait |-> FALSE] >>,
    testForms |->
      << [name |-> "Forms", statuses |-> {"SKIPPED"}, wait |-> FALSE],
         [name |-> "${formName} Validation", statuses |-> {"PASSED", "FAILED", "SKIPPED"}, wait |-> FALSE],
         [name |-> "${formName} Inputs", statuses |-> {"PASSED", "FAILED"}, wait |-> FALSE] >>,
    testChatbot |->
      << [name |-> "Chatbot", statuses |-> {"SKIPPED"}, wait |-> FALSE],
         [name |-> "Chatbot Toggle", statuses |-> {"FAILED"}, wait |-> FALSE],
         [name |-> "Chatbot Open", statuses |-> {"PASSED", "FAILED"}, wait |-> TRUE],
         [name |-> "Chatbot Input", statuses |-> {"FAILED"}, wait |-> FALSE],
         [name |-> "Chatbot Submit", statuses |-> {"FAILED"}, wait |-> FALSE],
         [name |-> "Chatbot Messages", statuses |-> {"FAILED"}, wait |-> FALSE],
         [name |-> "Chatbot Response", statuses |-> {"PASSED", "FAILED"}, wait |-> TRUE],
         [name |-> "Chatbot Close", statuses |-> {"PASSED", "FAILED", "SKIPPED"}, wait |-> TRUE] >>,
    testImageGenerator |->
      << [name |-> "Image Generator", statuses |-> {"SKIPPED"}, wait |-> FALSE],
         [name |-> "Image Generator Input", statuses |-> {"FAILED"}, wait |-> FALSE],
         [name |-> "Image Generator Button", statuses |-> {"FAILED"}, wait |-> FALSE],
         [name |-> "Image Generator Output", statuses |-> {"FAILED"}, wait |-> FALSE],
         [name |-> "Image Generation", statuses |-> {"PASSED", "FAILED"}, wait |-> TRUE],
         [name |-> "Image Style Selection", statuses |-> {"PASSED", "FAILED", "SKIPPED"}, wait |-> FALSE] >>,
    testSecurity |->
      << [name |-> "Content Security Policy", statuses |-> {"PASSED", "FAILED", "SKIPPED"}, wait |-> FALSE],
         [name |-> "XSS Protection", statuses |-> {"PASSED", "FAILED"}, wait |-> FALSE],
         [name |-> "CSRF Protection", statuses |-> {"PASSED", "FAILED", "SKIPPED"}, wait |-> FALSE],
         [name |-> "Form Validation", statuses |-> {"PASSED", "FAILED", "SKIPPED"}, wait |-> FALSE],
         [name |-> "Security Headers", statuses |-> {"PASSED", "FAILED"}, wait |-> FALSE] >>,
    testPerformance |->
      << [name |-> "Page Load Time", statuses |-> {"PASSED", "FAILED"}, wait |-> FALSE],
         [name |-> "Image Optimization", statuses |-> {"PASSED", "FAILED", "SKIPPED"}, wait |-> FALSE],
         [name |-> "Resource Hints", statuses |-> {"PASSED", "FAILED"}, wait |-> FALSE],
         [name |-> "JavaScript Performance", statuses |-> {"PASSED", "FAILED"}, wait |-> FALSE],
         [name |-> "Render Blocking Resources", statuses |-> {"PASSED", "FAILED"}, wait |-> FALSE] >> ]

\* the name under which the catch block of each test function logs FAILED
catchName ==
  [ testNavigation |-> "Navigation",
    testAnimations |-> "Animations",
    testResponsiveness |-> "Responsiveness",
    testForms |-> "Forms",
    testChatbot |-> "Chatbot",
    testImageGenerator |-> "Image Generator",
    testSecurity |-> "Security Features",
    testPerformance |-> "Performance" ]

NoTest == "(no test)"

NotLogged == "(not logged)"

\* resetTestResults, and the constructor
resetTestResults == [passed |-> 0, failed |-> 0, skipped |-> 0, total |-> 0, details |-> <<>>]

\* a switch without the case 'SKIPPED'
countStatusNoSkipped(r, status) ==
  CASE status = "PASSED" -> [r EXCEPT !.passed = @ + 1]
    [] status = "FAILED" -> [r EXCEPT !.failed = @ + 1]
    [] OTHER -> r

\* the switch of logTestResult
countStatus(r, status) ==
  CASE status = "PASSED" -> [r EXCEPT !.passed = @ + 1]
    [] status = "FAILED" -> [r EXCEPT !.failed = @ + 1]
    [] status = "SKIPPED" -> [r EXCEPT !.skipped = @ + 1]
    [] OTHER -> r

logTestResult(r, result) ==
  [countStatus([r EXCEPT !.total = @ + 1], result.status)
     EXCEPT !.details = Append(@, result)]

\* a runner that does not read the flags of config.components
nextTestIgnoringFlags(i, enabled) == IF i < Len(TestOrder) THEN i + 1 ELSE 0

\* runAllTests: the next function after position i whose flag is set, or 0
nextTest(i, enabled) ==
  IF \E j \in (i + 1)..Len(TestOrder) : TestOrder[j] \in enabled
    THEN CHOOSE j \in (i + 1)..Len(TestOrder) :
           /\ TestOrder[j] \in enabled
           /\ \A k \in (i + 1)..(j - 1) : TestOrder[k] \notin enabled
  ELSE 0

Pending == [state |-> "pending"]

Fulfilled(value) == [state |-> "fulfilled", value |-> value]

NoCall == [state |-> "no call"]

(***************************************************************************)
(* The state of each widget before its page is loaded.                     *)
(***************************************************************************)
StartTime == maxHistoryItems + 1

BrowserIdle ==
  /\ localStorage = [k \in StorageKeys |-> Absent]
  /\ now = StartTime

ChatIdle ==
  /\ chatLoaded = FALSE
  /\ chatHistory = List(<<>>)
  /\ analytics = newAnalytics(0)
  /\ pendingReplies = <<>>
  /\ chatError = NoError
  /\ chatPushed = <<>>
  /\ chatSubmitted = <<>>
  /\ chatReplied = <<>>
  /\ chatClears = 0
  /\ typingIndicators = 0
  /\ chatReloads = 0
  /\ speechSupported = TRUE
  /\ isListening = FALSE
  /\ recognition = 0
  /\ sessions = <<>>
  /\ voiceTimers = <<>>
  /\ inputFields = [isPopup \in BOOLEAN |-> <<>>]
  /\ voiceResults = 0

ImageIdle ==
  /\ genLoaded = FALSE
  /\ generationHistory = List(<<>>)
  /\ genAnalytics = newGenAnalytics(0)
  /\ genResult = NoResult
  /\ genError = NoError
  /\ inlineLoaded = FALSE
  /\ inlineError = NoError
  /\ inlineHistory = List(<<>>)
  /\ inlinePending = <<>>
  /\ fnLoaded = FALSE
  /\ imageHistory = List(<<>>)
  /\ isGenerating = FALSE
  /\ genIsGenerating = FALSE
  /\ fnRefused = 0
  /\ genTried = <<>>
  /\ fnTried = <<>>
  /\ fnPending = <<>>
  /\ fnResult = NoResult
  /\ genAdded = <<>>
  /\ inlineAdded = <<>>
  /\ fnAdded = <<>>
  /\ generations = 0

NullToken == "null"

SecIdle ==
  /\ secLoaded = FALSE
  /\ csrfToken = NullToken
  /\ suspiciousActivities = <<>>
  /\ isBlocked = FALSE
  /\ blockExpiry = NullTime
  /\ requestCount = 0
  /\ failedAttempts = 0
  /\ blockMessages = 0
  /\ unblockTimers = <<>>
  /\ countdowns = 0
  /\ nextReset = 0
  /\ fieldValue = <<>>
  /\ typedText = <<>>
  /\ lastRequest = NoRequest
  /\ secError = NoError
  /\ secInputs = 0

\* new TestingUtilities(TESTING_CONFIG)
TestConstructed ==
  /\ testResults = resetTestResults
  /\ isRunning = FALSE
  /\ runIndex = 0
  /\ activeTest = NoTest
  /\ checkIndex = 0
  /\ waiting = FALSE
  /\ runOutcome = NoCall
  /\ testEvents = <<>>
  /\ faults = 0
  /\ runs = 0
  /\ ignoredCalls = 0

TestIdle ==
  /\ enabledTests = {TestOrder[n] : n \in 1..Len(TestOrder)}
  /\ retryCount = 2
  /\ TestConstructed

(***************************************************************************)
(* Reply computation as a state machine: a text is in the input field, and *)
(* each chatbot's send handler trims it, ignores it when empty, and        *)
(* computes the reply.                                                     *)
(***************************************************************************)
MaxFragments == 2

Fragments ==
  { <<"h", "e", "l", "l", "o">>,
    <<"H", "i">>,
    <<"e", "v", "e", "n", "t", "s">>,
    <<"p", "r", "i", "c", "e">>,
    <<"h", "i", "s", "t", "o", "r", "y">>,
    <<"f", "o", "u", "n", "d", "e", "d">>,
    <<"t">>,
    <<"s">>,
    <<" ">> }

RECURSIVE Concats(_)
Concats(n) ==
  IF n = 0 THEN { <<>> }
  ELSE LET shorter == Concats(n - 1)
       IN  shorter \cup { a \o f : a \in shorter, f \in Fragments }

ReplyInputs == Concats(MaxFragments)

ReplyIdle == rInput = <<>> /\ rEnhanced = NoReply /\ rInline = NoReply

InitReply ==
  /\ rInput \in ReplyInputs
  /\ rEnhanced = NoReply
  /\ rInline = NoReply
  /\ BrowserIdle
  /\ ChatIdle
  /\ ImageIdle
  /\ SecIdle
  /\ TestIdle

\* ValleyBot.sendMessage -> getBotResponse -> fetchAIResponse -> getEnhancedResponse
ReplyEnhanced ==
  /\ rEnhanced = NoReply
  /\ trim(rInput) # <<>>
  /\ rEnhanced' = getEnhancedResponse(trim(rInput))
  /\ UNCHANGED <<rInput, rInline, notReply>>

\* initChatbot.sendMessage -> getBotResponse
ReplyInline ==
  /\ rInline = NoReply
  /\ trim(rInput) # <<>>
  /\ rInline' = initChatbot_getBotResponse(trim(rInput))
  /\ UNCHANGED <<rInput, rEnhanced, notReply>>

NextReply == ReplyEnhanced \/ ReplyInline

SpecReply == InitReply /\ [][NextReply]_vars

(***************************************************************************)
(* ValleyBot as a state machine: the page loads (constructor and init),    *)
(* the visitor submits texts through the main input or the popup, and the  *)
(* 1500 ms timers of fetchAIResponse fire in the order they were set.      *)
(* A localStorage write may throw (quota); each handler draws the outcome  *)
(* of each of its writes.                                                  *)
(***************************************************************************)
MaxSubmissions == 2

MaxReloads == 1

MaxClears == 1

\* values of the chat input field
ChatInputs == { <<"H", "i">>, K_constructor, <<" ">> }

SeedEntry(i) ==
  ChatEntry(IF i % 2 = 1 THEN "assistant" ELSE "user", <<"earlier message">>, i)

SeedHistory(n) == List([i \in 1..n |-> SeedEntry(i)])

\* texts an earlier visit, or anything else on the origin, left under ChatKey
ChatSeeds ==
  {Absent, Malformed, JsonText(NullList)}
    \cup { stringifyChatHistory(SeedHistory(n)) : n \in {maxHistoryItems - 1, maxHistoryItems} }

AnalyticsSeeds ==
  {Absent, Malformed,
   stringifyAnalytics([totalInteractions |-> Num(2),
                       popularQuestions |-> (<<"h", "i">> :> Num(2)),
                       sessionStartTime |-> DateObject(1),
                       lastInteractionTime |-> DateObject(2)])}

InitChat ==
  /\ ReplyIdle
  /\ \E h \in ChatSeeds, a \in AnalyticsSeeds :
       localStorage = [k \in StorageKeys |->
                         IF k = ChatKey THEN h ELSE IF k = AnalyticsKey THEN a ELSE Absent]
  /\ now = StartTime
  /\ ChatIdle
  /\ ImageIdle
  /\ SecIdle
  /\ TestIdle

\* DOMContentLoaded: new ValleyBot(CHATBOT_CONFIG), then init(), whose
\* listeners are attached before the welcome message is added
ChatLoad(ok) ==
  /\ chatReloads < MaxReloads
  /\ LET loaded == loadChatHistory(localStorage)
         r == addMessage(loaded, localStorage, "assistant", getWelcomeMessage(now), now, ok)
     IN  /\ chatHistory' = r.history
         /\ localStorage' = r.store
         /\ chatError' = r.error
         /\ chatPushed' = (IF loaded.isList THEN loaded.items ELSE <<>>)
                            \o (IF r.pushed THEN <<ChatEntry("assistant", getWelcomeMessage(now), now)>>
                                ELSE <<>>)
  /\ analytics' = loadAnalytics(localStorage, now)
  /\ chatLoaded' = TRUE
  /\ pendingReplies' = <<>>
  /\ chatSubmitted' = <<>>
  /\ chatReplied' = <<>>
  /\ chatClears' = 0
  /\ typingIndicators' = 0
  /\ chatReloads' = chatReloads + 1
  /\ isListening' = FALSE
  /\ recognition' = 0
  /\ sessions' = <<>>
  /\ voiceTimers' = <<>>
  /\ inputFields' = [isPopup \in BOOLEAN |-> <<>>]
  /\ UNCHANGED <<speechSupported, voiceResults>>
  /\ now' = now + 1
  /\ UNCHANGED notChat

\* addUserMessage(message); getBotResponse(message) up to its await; and,
\* when `track`, trackInteraction(message)
submit(message, track, okHistory, okAnalytics) ==
  LET r == addMessage(chatHistory, localStorage, "user", message, now, okHistory)
      id == Len(chatSubmitted) + 1
      tracked == trackInteraction(analytics, message, now)
  IN  /\ chatHistory' = r.history
      /\ chatPushed' = IF r.pushed THEN Append(chatPushed, ChatEntry("user", message, now))
                       ELSE chatPushed
      /\ chatSubmitted' = Append(chatSubmitted, [message |-> message, appended |-> r.pushed])
      /\ IF r.error # NoError
           THEN /\ chatError' = r.error
                /\ localStorage' = r.store
                /\ UNCHANGED <<pendingReplies, analytics, typingIndicators>>
           ELSE /\ pendingReplies' = Append(pendingReplies, [id |-> id, message |-> message])
                /\ typingIndicators' = showTypingIndicator(typingIndicators)
                /\ IF track
                     THEN /\ analytics' = tracked
                          /\ IF okAnalytics
                               THEN /\ localStorage' = setItem(r.store, AnalyticsKey,
                                                               stringifyAnalytics(tracked))
                                    /\ chatError' = NoError
                               ELSE /\ localStorage' = r.store
                                    /\ chatError' = QuotaExceededError
                     ELSE /\ localStorage' = r.store
                          /\ chatError' = NoError
                          /\ UNCHANGED analytics
      /\ now' = now + 1
      /\ UNCHANGED <<chatLoaded, chatReplied, chatClears, chatReloads>>

\* ValleyBot.sendMessage: send button, Enter key, suggestion chip, voice input
SendMessage(value, okHistory, okAnalytics) ==
  /\ chatLoaded
  /\ Len(chatSubmitted) < MaxSubmissions
  /\ IF trim(value) = <<>>
       THEN UNCHANGED <<browserVars, chatVars>>
       ELSE submit(trim(value), TRUE, okHistory, okAnalytics)
  /\ UNCHANGED voiceVars
  /\ UNCHANGED notChat

\* click handler of the popup's send button (initChatbotPopup)
PopupSend(value, okHistory) ==
  /\ chatLoaded
  /\ Len(chatSubmitted) < MaxSubmissions
  /\ IF trim(value) = <<>>
       THEN UNCHANGED <<browserVars, chatVars>>
       ELSE submit(trim(value), FALSE, okHistory, TRUE)
  /\ UNCHANGED voiceVars
  /\ UNCHANGED notChat

\* the oldest 1500 ms timer fires: fetchAIResponse returns
\* getEnhancedResponse(message) and getBotResponse resumes; an exception of
\* addBotMessage is caught, hideTypingIndicator is called a second time and
\* the local response is added instead
ReplyTimer(ok1, ok2) ==
  /\ pendingReplies # <<>>
  /\ LET p == Head(pendingReplies)
         response == <<getEnhancedResponse(p.message)>>
         fallbackResponse == <<getLocalResponse(p.message)>>
         r1 == addMessage(chatHistory, localStorage, "assistant", response, now, ok1)
         r2 == addMessage(r1.history, r1.store, "assistant", fallbackResponse, now + 1, ok2)
         r == IF r1.error = NoError THEN r1 ELSE r2
         pushed1 == IF r1.pushed THEN <<ChatEntry("assistant", response, now)>> ELSE <<>>
         pushed2 == IF r1.error # NoError /\ r2.pushed
                      THEN <<ChatEntry("assistant", fallbackResponse, now + 1)>> ELSE <<>>
     IN  /\ chatHistory' = r.history
         /\ localStorage' = r.store
         /\ chatError' = r.error
         /\ chatPushed' = chatPushed \o pushed1 \o pushed2
         /\ chatReplied' = chatReplied \o [i \in 1..(Len(pushed1) + Len(pushed2)) |-> p.id]
  /\ pendingReplies' = Tail(pendingReplies)
  /\ typingIndicators' =
       IF addMessage(chatHistory, localStorage, "assistant",
                     <<getEnhancedResponse(Head(pendingReplies).message)>>, now, ok1).error
            = NoError
         THEN hideTypingIndicator(typingIndicators)
       ELSE hideTypingIndicator(hideTypingIndicator(typingIndicators))
  /\ now' = now + 2
  /\ UNCHANGED <<chatLoaded, analytics, chatSubmitted, chatClears, chatReloads>>
  /\ UNCHANGED voiceVars
  /\ UNCHANGED notChat

\* a script calls clearChatHistory() on the chatbot; chatMessages.innerHTML = ''
\* removes the typing indicators with the messages
ClearChatHistory(ok) ==
  /\ chatLoaded
  /\ chatClears < MaxClears
  /\ LET r == clearChatHistory(localStorage, now, ok)
     IN  /\ chatHistory' = r.history
         /\ localStorage' = r.store
         /\ chatError' = r.error
         /\ chatPushed' = r.history.items
  /\ chatClears' = chatClears + 1
  /\ typingIndicators' = 0
  /\ now' = now + 1
  /\ UNCHANGED <<chatLoaded, analytics, pendingReplies, chatSubmitted, chatReplied, chatReloads>>
  /\ UNCHANGED voiceVars
  /\ UNCHANGED notChat

NextChat ==
  \/ \E ok \in BOOLEAN : ChatLoad(ok)
  \/ \E ok \in BOOLEAN : ClearChatHistory(ok)
  \/ \E value \in ChatInputs, okHistory, okAnalytics \in BOOLEAN :
       SendMessage(value, okHistory, okAnalytics)
  \/ \E value \in ChatInputs, okHistory \in BOOLEAN : PopupSend(value, okHistory)
  \/ \E ok1, ok2 \in BOOLEAN : ReplyTimer(ok1, ok2)

SpecChat == InitChat /\ [][NextChat]_vars

(***************************************************************************)
(* Voice input of ValleyBot as a state machine. The visitor clicks the     *)
(* voice button of the main chat or of the popup; the browser delivers the *)
(* result, error and end events of each SpeechRecognition object that was  *)
(* started; the 500 ms timers set by onresult fire in the order they were  *)
(* set. A session is "active" from start() until stop() is called on it,   *)
(* its final result or an error is delivered; "stopping" after stop(),     *)
(* when the browser may still deliver the final result; "finishing" when   *)
(* only its end event remains; then "ended". config.voice.continuous is    *)
(* false and config.voice.interimResults is true.                          *)
(***************************************************************************)
MaxSessions == 3

MaxResults == 2

\* what the recognizer hears
Transcripts == { <<"H", "i">> }

\* recognition.stop(): stops the object this.recognition refers to
stop(ss, r) ==
  IF r \in 1..Len(ss) /\ ss[r].status = "active"
    THEN [ss EXCEPT ![r].status = "stopping"]
  ELSE ss

\* the state after the constructor and init() ran on a page whose storage
\* is empty and can be written
InitVoice ==
  /\ ReplyIdle
  /\ ImageIdle
  /\ SecIdle
  /\ TestIdle
  /\ LET empty == [k \in StorageKeys |-> Absent]
         r == addMessage(loadChatHistory(empty), empty, "assistant",
                         getWelcomeMessage(StartTime), StartTime, TRUE)
     IN  /\ chatHistory = r.history
         /\ localStorage = r.store
         /\ chatError = r.error
         /\ chatPushed = r.history.items
         /\ analytics = loadAnalytics(empty, StartTime)
  /\ now = StartTime + 1
  /\ chatLoaded = TRUE
  /\ pendingReplies = <<>>
  /\ chatSubmitted = <<>>
  /\ chatReplied = <<>>
  /\ chatClears = 0
  /\ typingIndicators = 0
  /\ chatReloads = 1
  /\ speechSupported \in BOOLEAN
  /\ isListening = FALSE
  /\ recognition = 0
  /\ sessions = <<>>
  /\ voiceTimers = <<>>
  /\ inputFields = [isPopup \in BOOLEAN |-> <<>>]
  /\ voiceResults = 0

\* what the events of a recognition session leave alone
notVoice == <<replyVars, imageVars, secVars, testVars, browserVars,
              chatLoaded, chatHistory, analytics, pendingReplies, chatError,
              chatPushed, chatSubmitted, chatReplied, chatClears, chatReloads,
              typingIndicators, speechSupported>>

\* toggleVoiceInput(isPopup): click on a voice button
toggleVoiceInput(isPopup) ==
  /\ chatLoaded
  /\ IF ~speechSupported
       THEN UNCHANGED voiceVars
       ELSE /\ isListening \/ Len(sessions) < MaxSessions
            /\ IF isListening
                 THEN /\ sessions' = stop(sessions, recognition)
                      /\ isListening' = FALSE
                      /\ UNCHANGED recognition
                 ELSE /\ sessions' = Append(sessions,
                                            [status |-> "active", isPopup |-> isPopup])
                      /\ recognition' = Len(sessions) + 1
                      /\ isListening' = TRUE
            /\ UNCHANGED <<speechSupported, voiceTimers, inputFields, voiceResults>>
  /\ UNCHANGED notVoice

\* recognition.onresult of session i: an interim result while it is active,
\* or its final result, after which only its end event remains
onresult(i, transcript, final) ==
  /\ i \in 1..Len(sessions)
  /\ voiceResults < MaxResults
  /\ sessions[i].status = "active" \/ (final /\ sessions[i].status = "stopping")
  /\ inputFields' = [inputFields EXCEPT ![sessions[i].isPopup] = transcript]
  /\ voiceTimers' = Append(voiceTimers, sessions[i].isPopup)
  /\ sessions' = IF final THEN [sessions EXCEPT ![i].status = "finishing"] ELSE sessions
  /\ voiceResults' = voiceResults + 1
  /\ UNCHANGED <<isListening, recognition>>
  /\ UNCHANGED notVoice

\* recognition.onerror of session i
onerror(i) ==
  /\ i \in 1..Len(sessions)
  /\ sessions[i].status \in {"active", "stopping"}
  /\ sessions' = [sessions EXCEPT ![i].status = "finishing"]
  /\ isListening' = FALSE
  /\ UNCHANGED <<recognition, voiceTimers, inputFields, voiceResults>>
  /\ UNCHANGED notVoice

\* recognition.onend of session i
onend(i) ==
  /\ i \in 1..Len(sessions)
  /\ sessions[i].status \in {"stopping", "finishing"}
  /\ sessions' = [sessions EXCEPT ![i].status = "ended"]
  /\ isListening' = FALSE
  /\ UNCHANGED <<recognition, voiceTimers, inputFields, voiceResults>>
  /\ UNCHANGED notVoice

\* the oldest 500 ms timer of onresult fires: it clicks the send button of
\* the chat the session was started from, whose listener sends what the
\* input field holds and clears the field once the user message is added;
\* then it resets the button and the flag
VoiceTimer(okHistory, okAnalytics) ==
  /\ voiceTimers # <<>>
  /\ LET isPopup == Head(voiceTimers)
         message == trim(inputFields[isPopup])
     IN  IF message = <<>>
           THEN UNCHANGED <<browserVars, chatLoaded, chatHistory, analytics, pendingReplies,
                            chatError, chatPushed, chatSubmitted, chatReplied, chatClears,
                            chatReloads, typingIndicators, inputFields>>
           ELSE /\ submit(message, ~isPopup, okHistory, okAnalytics \/ isPopup)
                /\ inputFields' =
                     IF addMessage(chatHistory, localStorage, "user", message, now,
                                   okHistory).error = NoError
                       THEN [inputFields EXCEPT ![isPopup] = <<>>]
                     ELSE inputFields
  /\ voiceTimers' = Tail(voiceTimers)
  /\ isListening' = FALSE
  /\ UNCHANGED <<speechSupported, recognition, sessions, voiceResults>>
  /\ UNCHANGED notChat

NextVoice ==
  \/ \E isPopup \in BOOLEAN : toggleVoiceInput(isPopup)
  \/ \E i \in 1..MaxSessions, transcript \in Transcripts, final \in BOOLEAN :
       onresult(i, transcript, final)
  \/ \E i \in 1..MaxSessions : onerror(i)
  \/ \E i \in 1..MaxSessions : onend(i)
  \/ \E okHistory, okAnalytics \in BOOLEAN : VoiceTimer(okHistory, okAnalytics)
  \/ \E ok1, ok2 \in BOOLEAN : ReplyTimer(ok1, ok2)

SpecVoice == InitVoice /\ [][NextVoice]_vars

(***************************************************************************)
(* The image generators as a state machine. Each widget is initialised by  *)
(* its own DOMContentLoaded listener; a generate request of the class runs *)
(* to completion (fetchGeneratedImage never waits for a timer), those of   *)
(* the other two wait for a timer.                                         *)
(***************************************************************************)
MaxGenerations == 3

MaxRefused == 1

\* values of the prompt input fields
ImagePrompts == { <<"c", "a", "t">>, <<"a", HighSurrogate>>, <<" ">> }

\* imageGeneratorConfig.apiConfig.localFallback.placeholderCount
placeholderCount == 5

Reverse(s) == [i \in 1..Len(s) |-> s[Len(s) - i + 1]]

\* a history of n entries an earlier visit stored, newest first
SeedImages(n) ==
  List([i \in 1..n |->
          ImageEntry(<<"o", "l", "d">>, <<"https://image.pollinations.ai/prompt/", "old">>,
                     "neon-urban", n - i + 1)])

SeedInlineImages(n) ==
  List([i \in 1..n |->
          InlineImageEntry(<<"o", "l", "d">>, "neon",
                           <<"https://source.unsplash.com/random/800x800/?neon,city">>,
                           n - i + 1)])

ImageSeeds ==
  {Absent, Malformed}
    \cup { stringifyImageHistory(SeedImages(n)) : n \in {genMaxHistoryItems - 1, genMaxHistoryItems} }

InlineSeeds ==
  {Absent, Malformed}
    \cup { stringifyInlineHistory(SeedInlineImages(n)) : n \in {inlineMaxHistory - 1, inlineMaxHistory} }

InitImage ==
  /\ ReplyIdle
  /\ ChatIdle
  /\ ImageIdle
  /\ SecIdle
  /\ TestIdle
  /\ \E h \in ImageSeeds, i \in InlineSeeds :
       localStorage = [k \in StorageKeys |->
                         IF k = ImageKey THEN h ELSE IF k = InlineImageKey THEN i ELSE Absent]
  /\ now = StartTime

\* every DOMContentLoaded listener has run: input events are dispatched after them
ImagePageReady == genLoaded /\ fnLoaded /\ (inlineLoaded \/ inlineError # NoError)

\* DOMContentLoaded of ValleyImageGenerator: constructor, then init(), which
\* attaches the listeners before updateHistoryDisplay walks the history
ImageLoad ==
  /\ ~genLoaded
  /\ LET loaded == loadGenerationHistory(localStorage)
     IN  /\ generationHistory' = loaded
         /\ genAdded' = IF loaded.isList THEN Reverse(loaded.items) ELSE <<>>
         /\ genError' = IF loaded.isList THEN NoError ELSE TypeError
  /\ genAnalytics' = loadGenAnalytics(localStorage, now)
  /\ genLoaded' = TRUE
  /\ genIsGenerating' = FALSE
  /\ now' = now + 1
  /\ UNCHANGED <<localStorage, genResult, inlineLoaded, inlineError, inlineHistory,
                 inlinePending, fnLoaded, imageHistory, isGenerating, fnPending, fnResult,
                 inlineAdded, fnAdded, generations, fnRefused, genTried, fnTried>>
  /\ UNCHANGED notImage

\* ValleyImageGenerator.generateImage: the promise it awaits is settled
\* without a timer, so the call has reached its finally block, which resets
\* this.isGenerating, before the next event is dispatched
GenerateImage(value, okHistory, okAnalytics) ==
  /\ ImagePageReady
  /\ generations < MaxGenerations
  /\ LET prompt == trim(value)
         imageUrl == fetchGeneratedImage(enhancePrompt(prompt), now)
         historyItem == ImageEntry(prompt, imageUrl.url, "neon-urban", now)
         added == List(addToHistory(generationHistory.items, historyItem))
         tracked == trackGeneration(genAnalytics, prompt, "neon-urban", now)
         saved == setItem(localStorage, ImageKey, stringifyImageHistory(added))
     IN  IF prompt = <<>> \/ genIsGenerating
           THEN UNCHANGED <<browserVars, imageVars>>
           ELSE /\ genResult' = imageUrl
                /\ genTried' = endpointsTried(enhancePrompt(prompt), now)
                /\ genIsGenerating' = FALSE
                /\ generations' = generations + 1
                /\ now' = now + 1
                /\ IF imageUrl.kind = "error" \/ ~generationHistory.isList
                     THEN UNCHANGED <<localStorage, generationHistory, genAnalytics, genAdded>>
                     ELSE /\ generationHistory' = added
                          /\ genAdded' = Append(genAdded, historyItem)
                          /\ IF ~okHistory
                               THEN UNCHANGED <<localStorage, genAnalytics>>
                               ELSE /\ genAnalytics' = tracked
                                    /\ localStorage' =
                                         IF okAnalytics
                                           THEN setItem(saved, GenAnalyticsKey,
                                                        stringifyGenAnalytics(tracked))
                                           ELSE saved
                /\ UNCHANGED <<genLoaded, genError, inlineLoaded, inlineError, inlineHistory,
                               inlinePending, fnLoaded, imageHistory, isGenerating, fnPending,
                               fnResult, inlineAdded, fnAdded, fnRefused, fnTried>>
  /\ UNCHANGED notImage

\* initAIImageGenerator, called from the page's DOMContentLoaded listener:
\* an exception of JSON.parse leaves it before any listener is attached
InlineLoad ==
  /\ ~inlineLoaded
  /\ inlineError = NoError
  /\ LET r == inlineLoadHistory(localStorage)
     IN  /\ inlineError' = r.error
         /\ inlineLoaded' = (r.error = NoError)
         /\ inlineHistory' = r.history
         /\ inlineAdded' = Reverse(r.history.items)
  /\ UNCHANGED <<browserVars, genLoaded, generationHistory, genAnalytics, genResult, genError,
                 inlinePending, fnLoaded, imageHistory, isGenerating, fnPending, fnResult,
                 genAdded, fnAdded, generations, genIsGenerating, fnRefused, genTried,
                 fnTried>>
  /\ UNCHANGED notImage

\* click handler of the inline generate button, up to the await of generateImage
InlineGenerate(value) ==
  /\ ImagePageReady
  /\ inlineLoaded
  /\ generations < MaxGenerations
  /\ IF trim(value) = <<>>
       THEN UNCHANGED <<inlinePending, generations>>
       ELSE /\ inlinePending' = Append(inlinePending, trim(value))
            /\ generations' = generations + 1
  /\ UNCHANGED <<browserVars, genLoaded, generationHistory, genAnalytics, genResult, genError,
                 inlineLoaded, inlineError, inlineHistory, fnLoaded, imageHistory,
                 isGenerating, fnPending, fnResult, genAdded, inlineAdded, fnAdded,
                 genIsGenerating, fnRefused, genTried, fnTried>>
  /\ UNCHANGED notImage

\* the oldest 2000 ms timer of the inline generator fires: the click handler
\* resumes and calls addToImageHistory; an exception of setItem is caught
InlineTimer(ok) ==
  /\ inlinePending # <<>>
  /\ LET image == InlineImageEntry(Head(inlinePending), "neon",
                                   <<"https://source.unsplash.com/random/800x800/?neon,city">>,
                                   now)
         added == List(inlineAddToImageHistory(inlineHistory.items, image))
     IN  /\ inlineHistory' = added
         /\ inlineAdded' = Append(inlineAdded, image)
         /\ localStorage' = IF ok THEN setItem(localStorage, InlineImageKey,
                                               stringifyInlineHistory(added))
                            ELSE localStorage
  /\ inlinePending' = Tail(inlinePending)
  /\ now' = now + 1
  /\ UNCHANGED <<genLoaded, generationHistory, genAnalytics, genResult, genError,
                 inlineLoaded, inlineError, fnLoaded, imageHistory, isGenerating, fnPending,
                 fnResult, genAdded, fnAdded, generations, genIsGenerating, fnRefused,
                 genTried, fnTried>>
  /\ UNCHANGED notImage

\* initImageGenerator of the function-based generator
FnLoad ==
  /\ ~fnLoaded
  /\ LET loaded == loadImageHistory(localStorage)
     IN  /\ imageHistory' = loaded
         /\ fnAdded' = IF loaded.isList THEN Reverse(loaded.items) ELSE <<>>
  /\ fnLoaded' = TRUE
  /\ UNCHANGED <<browserVars, genLoaded, generationHistory, genAnalytics, genResult, genError,
                 inlineLoaded, inlineError, inlineHistory, inlinePending, isGenerating,
                 fnPending, fnResult, genAdded, inlineAdded, generations, genIsGenerating,
                 fnRefused, genTried, fnTried>>
  /\ UNCHANGED notImage

\* enhancePrompt of the function-based generator with the default style 'realistic'
fnEnhancePrompt(prompt) ==
  prompt \o <<",", " ", "ultra realistic, highly detailed, 8k, photorealistic">>

\* apiConfig.localFallback.enabled
localFallbackEnabled == TRUE

\* the nested try blocks of generateImageFromPrompt: both callImageAPI calls
\* encode the same prompt, so the second throws whenever the first did
sourcesTried(encoded) ==
  IF encoded.error = NoError THEN <<"primary">>
  ELSE <<"primary", "fallback">> \o (IF localFallbackEnabled THEN <<"local">> ELSE <<>>)

\* getLocalFallbackImage with useRandomPlaceholders: Math.random picks the index
getLocalFallbackImage(placeholderIndex) ==
  <<"images/placeholder-", ToString(placeholderIndex), ".jpg">>

\* displayGeneratedImage: addToImageHistory, whose unshift throws on a history
\* that is not a list, and saveImageHistory, which catches a failing write
displayGeneratedImage(imageUrl, prompt, ok) ==
  LET historyItem == FnImageEntry(imageUrl, prompt, "realistic", "medium", now)
      added == List(addToImageHistory(imageHistory.items, historyItem))
  IN  IF ~imageHistory.isList
        THEN UNCHANGED <<imageHistory, fnAdded, localStorage>>
        ELSE /\ imageHistory' = added
             /\ fnAdded' = Append(fnAdded, historyItem)
             /\ localStorage' = IF ok THEN setItem(localStorage, ImageKey,
                                                   stringifyImageHistory(added))
                                ELSE localStorage

\* generateImage as it would be without the check of isGenerating
neverGenerating(flag) == FALSE

\* generateImage: if (isGenerating) { showError(...); return; }
alreadyGenerating(flag) == flag

\* generateImage of the function-based generator. With a prompt that
\* encodeURIComponent rejects, both callImageAPI calls throw before their
\* timers are set and the local fallback image is displayed at once;
\* otherwise the primary call waits for its 1500 ms timer.
FnGenerate(value, placeholderIndex, ok) ==
  /\ ImagePageReady
  /\ generations < MaxGenerations
  /\ LET userPrompt == trim(value)
         encoded == encodeURIComponent(fnEnhancePrompt(userPrompt))
         apiUrl == <<"https://image.pollinations.ai/prompt/", "768", "x", "512", "/">>
                     \o encoded.text
     IN  IF userPrompt = <<>>
           THEN UNCHANGED <<browserVars, imageHistory, isGenerating, fnPending, fnResult,
                            fnAdded, generations, fnRefused, fnTried>>
           ELSE IF alreadyGenerating(isGenerating)
           THEN /\ fnRefused < MaxRefused
                /\ fnRefused' = fnRefused + 1
                /\ UNCHANGED <<browserVars, imageHistory, isGenerating, fnPending, fnResult,
                               fnAdded, generations, fnTried>>
           ELSE /\ generations' = generations + 1
                /\ fnTried' = sourcesTried(encoded)
                /\ UNCHANGED fnRefused
                /\ IF encoded.error = NoError
                     THEN /\ isGenerating' = TRUE
                          /\ fnPending' = Append(fnPending, [prompt |-> userPrompt, url |-> apiUrl])
                          /\ UNCHANGED <<browserVars, imageHistory, fnResult, fnAdded>>
                     ELSE IF localFallbackEnabled
                       THEN /\ fnResult' = Resolved(getLocalFallbackImage(placeholderIndex))
                            /\ displayGeneratedImage(getLocalFallbackImage(placeholderIndex),
                                                     userPrompt, ok)
                            /\ now' = now + 1
                            /\ UNCHANGED <<isGenerating, fnPending>>
                       ELSE /\ fnResult' = Rejected
                            /\ UNCHANGED <<browserVars, imageHistory, fnAdded, isGenerating,
                                           fnPending>>
  /\ UNCHANGED <<genLoaded, generationHistory, genAnalytics, genResult, genError,
                 inlineLoaded, inlineError, inlineHistory, inlinePending, fnLoaded,
                 genAdded, inlineAdded, genIsGenerating, genTried>>
  /\ UNCHANGED notImage

\* the 1500 ms timer of callImageAPI fires: generateImageFromPrompt returns
\* the URL, its finally resets isGenerating, and the image is displayed
FnTimer(ok) ==
  /\ fnPending # <<>>
  /\ fnResult' = Resolved(Head(fnPending).url)
  /\ isGenerating' = FALSE
  /\ displayGeneratedImage(Head(fnPending).url, Head(fnPending).prompt, ok)
  /\ fnPending' = Tail(fnPending)
  /\ now' = now + 1
  /\ UNCHANGED <<genLoaded, generationHistory, genAnalytics, genResult, genError,
                 inlineLoaded, inlineError, inlineHistory, inlinePending, fnLoaded,
                 genAdded, inlineAdded, generations, genIsGenerating, fnRefused,
                 genTried, fnTried>>
  /\ UNCHANGED notImage

NextImage ==
  \/ ImageLoad
  \/ \E value \in ImagePrompts, okHistory, okAnalytics \in BOOLEAN :
       GenerateImage(value, okHistory, okAnalytics)
  \/ InlineLoad
  \/ \E value \in ImagePrompts : InlineGenerate(value)
  \/ \E ok \in BOOLEAN : InlineTimer(ok)
  \/ FnLoad
  \/ \E value \in ImagePrompts, placeholderIndex \in 1..placeholderCount, ok \in BOOLEAN :
       FnGenerate(value, placeholderIndex, ok)
  \/ \E ok \in BOOLEAN : FnTimer(ok)

SpecImage == InitImage /\ [][NextImage]_vars

(***************************************************************************)
(* The security layer as a state machine. The clock counts seconds and is  *)
(* advanced by the timers: the next timer to fire is the one with the      *)
(* earliest deadline, and the events of the visitor happen at the time the *)
(* clock shows. A page load builds a new SecurityManager and drops the     *)
(* timers and the document of the page before. The visitor is active       *)
(* during the first MaxActiveMinutes minutes, with at most MaxInputs input *)
(* events and MaxRequests clicks or submissions between two resets of the  *)
(* request counter, and the timers are followed for MaxMinutes minutes.    *)
(***************************************************************************)
MaxInputs == 5

MaxRequests == 1

MaxMinutes == 4

MaxActiveMinutes == 1

\* a form has one text field, or as many as the block threshold
FieldCounts == {1, blockThreshold}

Tokens == {"token-1", "token-2"}

Methods == {"GET", "POST"}

\* the visitor acts at the time the clock shows, within the active minutes
Active == secLoaded /\ now < StartTime + 60 * MaxActiveMinutes

\* the block a page loaded before StartTime stored, still to expire
BlockSeeds ==
  {Absent, JsonText([blocked |-> TRUE, expiry |-> toISOString(StartTime + blockDuration)])}

InitSec ==
  /\ ReplyIdle
  /\ ChatIdle
  /\ ImageIdle
  /\ SecIdle
  /\ TestIdle
  /\ now = StartTime
  /\ \E b \in BlockSeeds :
       localStorage = [k \in StorageKeys |-> IF k = BlockKey THEN b ELSE Absent]

\* the fields and globals the methods of the manager write, as one record
manager ==
  [log |-> suspiciousActivities, isBlocked |-> isBlocked, blockExpiry |-> blockExpiry,
   requestCount |-> requestCount, failedAttempts |-> failedAttempts,
   store |-> localStorage, blockMessages |-> blockMessages,
   unblockTimers |-> unblockTimers, countdowns |-> countdowns, error |-> NoError]

\* the state after a method returned record m
becomes(m) ==
  /\ suspiciousActivities' = m.log
  /\ isBlocked' = m.isBlocked
  /\ blockExpiry' = m.blockExpiry
  /\ requestCount' = m.requestCount
  /\ failedAttempts' = m.failedAttempts
  /\ localStorage' = m.store
  /\ blockMessages' = m.blockMessages
  /\ unblockTimers' = m.unblockTimers
  /\ countdowns' = m.countdowns
  /\ secError' = m.error

\* DOMContentLoaded: new SecurityManager(SECURITY_CONFIG), then init();
\* neither reads localStorage
SecLoad(token) ==
  /\ secLoaded' = TRUE
  /\ csrfToken' = token
  /\ suspiciousActivities' = <<>>
  /\ isBlocked' = FALSE
  /\ blockExpiry' = NullTime
  /\ requestCount' = 0
  /\ failedAttempts' = 0
  /\ blockMessages' = 0
  /\ unblockTimers' = <<>>
  /\ countdowns' = 0
  /\ nextReset' = now + 60
  /\ fieldValue' = <<>>
  /\ typedText' = <<>>
  /\ lastRequest' = NoRequest
  /\ secError' = NoError
  /\ UNCHANGED <<localStorage, now, secInputs>>
  /\ UNCHANGED notSec

\* an input event on a text field holding the text typed
inputEvent(typed, ok) ==
  /\ LET r == inputListeners(manager, typed, now, ok)
     IN  /\ becomes(r.m)
         /\ fieldValue' = r.fields
         /\ typedText' = typed
  /\ secInputs' = secInputs + 1
  /\ UNCHANGED <<secLoaded, csrfToken, nextReset, lastRequest, now>>
  /\ UNCHANGED notSec

\* the visitor types text into a text field
SecInput(typed, ok) ==
  /\ Active
  /\ secInputs < MaxInputs
  /\ inputEvent(typed, ok)

\* the visitor submits a form of count text fields, each holding text typed
SecSubmit(typed, count, ok) ==
  /\ Active
  /\ requestCount < MaxRequests
  /\ LET r == submitListeners(manager, [n \in 1..count |-> typed], now, ok)
     IN  /\ becomes(r.m)
         /\ fieldValue' = r.fields
         /\ typedText' = typed
  /\ UNCHANGED <<secLoaded, csrfToken, nextReset, lastRequest, now, secInputs>>
  /\ UNCHANGED notSec

\* the visitor clicks somewhere in the document
SecClick(ok) ==
  /\ Active
  /\ requestCount < MaxRequests
  /\ becomes(countRequest(manager, now, ok))
  /\ UNCHANGED <<secLoaded, csrfToken, nextReset, fieldValue, typedText, lastRequest, now, secInputs>>
  /\ UNCHANGED notSec

\* a script of the page calls fetch(url, {method})
SecFetch(method, thisValue) ==
  /\ secLoaded
  /\ lastRequest' = wrappedRequest("fetch", thisValue, method, csrfToken)
  /\ UNCHANGED <<secLoaded, csrfToken, suspiciousActivities, isBlocked, blockExpiry,
                 requestCount, failedAttempts, blockMessages, unblockTimers,
                 countdowns, nextReset, fieldValue, typedText, secError, secInputs>>
  /\ UNCHANGED <<browserVars, notSec>>

\* a script of the page calls open(method, url) and send() on a request
SecXhrSend(method) ==
  /\ secLoaded
  /\ lastRequest' = wrappedRequest("xhr", ThisOfSend, method, csrfToken)
  /\ UNCHANGED <<secLoaded, csrfToken, suspiciousActivities, isBlocked, blockExpiry,
                 requestCount, failedAttempts, blockMessages, unblockTimers,
                 countdowns, nextReset, fieldValue, typedText, secError, secInputs>>
  /\ UNCHANGED <<browserVars, notSec>>

\* the callback of requestCountResetTimer, when no timer is due before it
resetTimer ==
  /\ secLoaded
  /\ unblockTimers # <<>> => nextReset <= Head(unblockTimers)
  /\ now' = nextReset
  /\ requestCount' = 0
  /\ nextReset' = nextReset + 60
  /\ UNCHANGED <<secLoaded, csrfToken, suspiciousActivities, isBlocked, blockExpiry,
                 failedAttempts, blockMessages, unblockTimers, countdowns,
                 fieldValue, typedText, lastRequest, secError, secInputs, localStorage>>
  /\ UNCHANGED notSec

\* requestCountResetTimer runs, 60 s after its last run
SecResetTimer ==
  /\ nextReset <= StartTime + 60 * MaxMinutes
  /\ resetTimer

\* the oldest timer set by blockUser runs, blockDuration seconds after it was set
SecUnblockTimer ==
  /\ unblockTimers # <<>>
  /\ Head(unblockTimers) <= nextReset
  /\ now' = Head(unblockTimers)
  /\ becomes([unblockUser(manager) EXCEPT !.unblockTimers = Tail(@)])
  /\ UNCHANGED <<secLoaded, csrfToken, nextReset, fieldValue, typedText, lastRequest, secInputs>>
  /\ UNCHANGED notSec

\* a countdown interval of showBlockMessage finds no time remaining: the
\* expiry is past, or blockExpiry is null (null - new Date() is negative);
\* a run that only rewrites the number shown changes nothing kept here
SecCountdown ==
  /\ countdowns > 0
  /\ blockExpiry = NullTime \/ blockExpiry.t <= now
  /\ becomes([unblockUser(manager) EXCEPT !.countdowns = @ - 1])
  /\ UNCHANGED <<secLoaded, csrfToken, nextReset, fieldValue, typedText, lastRequest, now, secInputs>>
  /\ UNCHANGED notSec

NextSec ==
  \/ \E token \in Tokens : SecLoad(token)
  \/ \E typed \in InputValues, ok \in BOOLEAN : SecInput(typed, ok)
  \/ \E typed \in InputValues, count \in FieldCounts, ok \in BOOLEAN : SecSubmit(typed, count, ok)
  \/ \E ok \in BOOLEAN : SecClick(ok)
  \/ \E method \in Methods, thisValue \in ThisOfFetch : SecFetch(method, thisValue)
  \/ \E method \in Methods : SecXhrSend(method)
  \/ SecResetTimer
  \/ SecUnblockTimer
  \/ SecCountdown

SpecSec == InitSec /\ [][NextSec]_vars

(***************************************************************************)
(* The life of one page on which the visitor keeps typing text that the    *)
(* monitoring takes for an attack: the visitor types during the first      *)
(* MaxTypingMinutes minutes, at most MaxBlockInputs times, and the timers  *)
(* run until every timer set by blockUser has fired.                       *)
(***************************************************************************)
MaxTypingMinutes == 2

MaxBlockInputs == 8

\* no timer of blockUser is set for a later time
LastTimer == StartTime + 60 * MaxTypingMinutes + blockDuration

InitBlock ==
  /\ ReplyIdle
  /\ ChatIdle
  /\ ImageIdle
  /\ TestIdle
  /\ now = StartTime
  /\ localStorage = [k \in StorageKeys |-> Absent]
  /\ secLoaded = TRUE
  /\ csrfToken = "token-1"
  /\ suspiciousActivities = <<>>
  /\ isBlocked = FALSE
  /\ blockExpiry = NullTime
  /\ requestCount = 0
  /\ failedAttempts = 0
  /\ blockMessages = 0
  /\ unblockTimers = <<>>
  /\ countdowns = 0
  /\ nextReset = StartTime + 60
  /\ fieldValue = <<>>
  /\ typedText = <<>>
  /\ lastRequest = NoRequest
  /\ secError = NoError
  /\ secInputs = 0

\* the visitor types text into a text field
BlockInput(typed, ok) ==
  /\ now < StartTime + 60 * MaxTypingMinutes
  /\ secInputs < MaxBlockInputs
  /\ inputEvent(typed, ok)

BlockResetTimer ==
  /\ nextReset <= LastTimer
  /\ resetTimer

\* what the timers do
BlockTimers == BlockResetTimer \/ SecUnblockTimer \/ SecCountdown

NextBlock ==
  \/ \E typed \in {SqlText, PlainText}, ok \in BOOLEAN : BlockInput(typed, ok)
  \/ BlockTimers

SpecBlock == InitBlock /\ [][NextBlock]_vars

\* a timer that is due fires
SpecBlockFair == SpecBlock /\ WF_vars(BlockTimers)

(***************************************************************************)
(* sanitizeInput called on its own. The manager is initialised, its log    *)
(* empty or holding one earlier record; each call takes a text put         *)
(* together from at most MaxParts of the Parts below, and at most MaxCalls *)
(* calls are followed.                                                     *)
(***************************************************************************)
MaxParts == 2

MaxCalls == 1

Parts ==
  {<<"j", "a", "v", "a", "s", "c", "r", "i", "p", "t", ":">>,
   <<"d", "a", "t", "a", ":", "t", "e", "x", "t", "/", "h", "t", "m", "l">>,
   <<"a", "l", "e", "r", "t">>,
   <<" ">>,
   <<"(">>,
   <<"<", "b", ">">>,
   <<"o", "n", "L", "o", "a", "d", "=">>}

RECURSIVE textsOf(_)
textsOf(n) ==
  IF n = 0 THEN {<<>>}
  ELSE textsOf(n - 1) \cup {t \o part : t \in textsOf(n - 1), part \in Parts}

SanitizeInputs == textsOf(MaxParts)

\* sanitizeInput on each of these texts, evaluated once
SanitizedText == [v \in SanitizeInputs |-> sanitizeInput(v)]

\* whether at least one of the XSS patterns matches the text, evaluated once
MatchesXss == [v \in SanitizeInputs |-> testAny(xssPatterns, v)]

EarlierLogs ==
  {<<>>, <<[type |-> "Excessive request rate", details |-> <<"61", " requests in one minute">>,
           timestamp |-> toISOString(StartTime)]>>}

InitSanitize ==
  /\ ReplyIdle
  /\ ChatIdle
  /\ ImageIdle
  /\ TestIdle
  /\ now = StartTime
  /\ localStorage = [k \in StorageKeys |-> Absent]
  /\ secLoaded = TRUE
  /\ csrfToken = "token-1"
  /\ suspiciousActivities \in EarlierLogs
  /\ isBlocked = FALSE
  /\ blockExpiry = NullTime
  /\ requestCount = 0
  /\ failedAttempts = 0
  /\ blockMessages = 0
  /\ unblockTimers = <<>>
  /\ countdowns = 0
  /\ nextReset = StartTime + 60
  /\ fieldValue = <<>>
  /\ typedText = <<>>
  /\ lastRequest = NoRequest
  /\ secError = NoError
  /\ secInputs = 0

\* securityManager.sanitizeInput(input); fieldValue keeps the value returned
CallSanitizeInput(input) ==
  /\ secLoaded
  /\ secInputs < MaxCalls
  /\ typedText' = input
  /\ fieldValue' = <<SanitizedText[input].value>>
  /\ suspiciousActivities' =
       IF SanitizedText[input].xss
         THEN logSuspiciousActivity(manager, "Potential XSS attack", input, now).log
       ELSE suspiciousActivities
  /\ secInputs' = secInputs + 1
  /\ UNCHANGED <<secLoaded, csrfToken, isBlocked, blockExpiry, requestCount, failedAttempts,
                 blockMessages, unblockTimers, countdowns, nextReset, lastRequest, secError>>
  /\ UNCHANGED <<browserVars, notSec>>

NextSanitize == \E input \in SanitizeInputs : CallSanitizeInput(input)

SpecSanitize == InitSanitize /\ [][NextSanitize]_vars

(***************************************************************************)
(* The test runner as a state machine. runAllTests is called from the      *)
(* console; each test function is followed check by check, the document    *)
(* deciding what each check logs; a function gives the event loop a turn   *)
(* at every wait(ms). A run is followed with at most MaxFaults checks that *)
(* do not pass.                                                            *)
(***************************************************************************)
MaxRuns == 2

MaxFaults == 1

MaxIgnored == 1

AllTests == {TestOrder[n] : n \in 1..Len(TestOrder)}

TestConfigs == {AllTests, {"testNavigation", "testSecurity"}, {}}

RetryCounts == {0, 2}

InitTest ==
  /\ ReplyIdle
  /\ BrowserIdle
  /\ ChatIdle
  /\ ImageIdle
  /\ SecIdle
  /\ enabledTests \in TestConfigs
  /\ retryCount \in RetryCounts
  /\ TestConstructed

\* what a check logs when the document passes it
expected(check) == IF "PASSED" \in check.statuses THEN "PASSED" ELSE NotLogged

cost(check, outcome) == IF outcome = expected(check) THEN 0 ELSE 1

logged(r, check, outcome) ==
  IF outcome = NotLogged THEN r
  ELSE logTestResult(r, [name |-> check.name, status |-> outcome])

nextCheck == testChecks[activeTest][checkIndex + 1]

\* a runAllTests whose check of isRunning is inside the try block, so that
\* the finally block runs for a call that is ignored
RunAllTestsGuardInTry ==
  /\ IF isRunning
       THEN /\ ignoredCalls < MaxIgnored
            /\ ignoredCalls' = ignoredCalls + 1
            /\ isRunning' = FALSE
            /\ UNCHANGED <<testResults, runIndex, runOutcome, testEvents, faults, runs>>
     ELSE /\ runs < MaxRuns
          /\ testResults' = resetTestResults
          /\ isRunning' = TRUE
          /\ runIndex' = 0
          /\ runOutcome' = Pending
          /\ testEvents' = <<>>
          /\ faults' = 0
          /\ runs' = runs + 1
          /\ UNCHANGED ignoredCalls
  /\ UNCHANGED <<enabledTests, retryCount, activeTest, checkIndex, waiting>>
  /\ UNCHANGED notTest

\* runAllTests(), up to the first test function; a call made while
\* isRunning returns at once, before the try block
RunAllTests ==
  /\ IF isRunning
       THEN /\ ignoredCalls < MaxIgnored
            /\ ignoredCalls' = ignoredCalls + 1
            /\ UNCHANGED <<testResults, isRunning, runIndex, runOutcome, testEvents,
                           faults, runs>>
     ELSE /\ runs < MaxRuns
          /\ testResults' = resetTestResults
          /\ isRunning' = TRUE
          /\ runIndex' = 0
          /\ runOutcome' = Pending
          /\ testEvents' = <<>>
          /\ faults' = 0
          /\ runs' = runs + 1
          /\ UNCHANGED ignoredCalls
  /\ UNCHANGED <<enabledTests, retryCount, activeTest, checkIndex, waiting>>
  /\ UNCHANGED notTest

\* runAllTests: if (this.config.components.testX) await this.testX()
InvokeTest ==
  /\ isRunning
  /\ activeTest = NoTest
  /\ nextTest(runIndex, enabledTests) # 0
  /\ runIndex' = nextTest(runIndex, enabledTests)
  /\ activeTest' = TestOrder[runIndex']
  /\ checkIndex' = 0
  /\ testEvents' = Append(testEvents, <<"start", TestOrder[runIndex']>>)
  /\ UNCHANGED <<enabledTests, retryCount, testResults, isRunning, waiting, runOutcome,
                 faults, runs, ignoredCalls>>
  /\ UNCHANGED notTest

\* the active function reaches a check that needs no wait, or passes by one
TestCheck(outcome) ==
  /\ activeTest # NoTest
  /\ ~waiting
  /\ checkIndex < Len(testChecks[activeTest])
  /\ outcome \in nextCheck.statuses \cup {NotLogged}
  /\ ~nextCheck.wait \/ outcome = NotLogged
  /\ faults + cost(nextCheck, outcome) <= MaxFaults
  /\ faults' = faults + cost(nextCheck, outcome)
  /\ testResults' = logged(testResults, nextCheck, outcome)
  /\ checkIndex' = checkIndex + 1
  /\ UNCHANGED <<enabledTests, retryCount, isRunning, runIndex, activeTest, waiting,
                 runOutcome, testEvents, runs, ignoredCalls>>
  /\ UNCHANGED notTest

\* await this.wait(ms)
TestWait ==
  /\ activeTest # NoTest
  /\ ~waiting
  /\ checkIndex < Len(testChecks[activeTest])
  /\ nextCheck.wait
  /\ waiting' = TRUE
  /\ UNCHANGED <<enabledTests, retryCount, testResults, isRunning, runIndex, activeTest,
                 checkIndex, runOutcome, testEvents, faults, runs, ignoredCalls>>
  /\ UNCHANGED notTest

\* the timer of wait(ms) fires and the function logs what it finds
TestTimer(outcome) ==
  /\ waiting
  /\ outcome \in nextCheck.statuses
  /\ faults + cost(nextCheck, outcome) <= MaxFaults
  /\ faults' = faults + cost(nextCheck, outcome)
  /\ testResults' = logged(testResults, nextCheck, outcome)
  /\ checkIndex' = checkIndex + 1
  /\ waiting' = FALSE
  /\ UNCHANGED <<enabledTests, retryCount, isRunning, runIndex, activeTest,
                 runOutcome, testEvents, runs, ignoredCalls>>
  /\ UNCHANGED notTest

\* the active function returns: after its last check, or at a return
\* statement before it
TestReturn ==
  /\ activeTest # NoTest
  /\ ~waiting
  /\ LET early == IF checkIndex < Len(testChecks[activeTest]) THEN 1 ELSE 0
     IN  /\ faults + early <= MaxFaults
         /\ faults' = faults + early
  /\ activeTest' = NoTest
  /\ testEvents' = Append(testEvents, <<"end", activeTest>>)
  /\ UNCHANGED <<enabledTests, retryCount, testResults, isRunning, runIndex, checkIndex,
                 waiting, runOutcome, runs, ignoredCalls>>
  /\ UNCHANGED notTest

\* the body of the active function throws: its catch block logs FAILED
\* and the function returns
TestThrow ==
  /\ activeTest # NoTest
  /\ ~waiting
  /\ faults < MaxFaults
  /\ faults' = faults + 1
  /\ testResults' = logTestResult(testResults,
                      [name |-> catchName[activeTest], status |-> "FAILED"])
  /\ activeTest' = NoTest
  /\ testEvents' = Append(testEvents, <<"end", activeTest>>)
  /\ UNCHANGED <<enabledTests, retryCount, isRunning, runIndex, checkIndex,
                 waiting, runOutcome, runs, ignoredCalls>>
  /\ UNCHANGED notTest

\* a runAllTests without its finally block
RunFinishKeepsFlag ==
  /\ isRunning
  /\ activeTest = NoTest
  /\ nextTest(runIndex, enabledTests) = 0
  /\ runOutcome' = Fulfilled(testResults)
  /\ UNCHANGED <<enabledTests, retryCount, testResults, isRunning, runIndex, activeTest,
                 checkIndex, waiting, testEvents, faults, runs, ignoredCalls>>
  /\ UNCHANGED notTest

\* runAllTests after the last test function: return this.testResults, and
\* the finally block
RunFinish ==
  /\ isRunning
  /\ activeTest = NoTest
  /\ nextTest(runIndex, enabledTests) = 0
  /\ runOutcome' = Fulfilled(testResults)
  /\ isRunning' = FALSE
  /\ UNCHANGED <<enabledTests, retryCount, testResults, runIndex, activeTest, checkIndex,
                 waiting, testEvents, faults, runs, ignoredCalls>>
  /\ UNCHANGED notTest

Statuses == {"PASSED", "FAILED", "SKIPPED"}

RunStep ==
  \/ InvokeTest
  \/ \E outcome \in Statuses \cup {NotLogged} : TestCheck(outcome)
  \/ TestWait
  \/ \E outcome \in Statuses : TestTimer(outcome)
  \/ TestReturn
  \/ TestThrow
  \/ RunFinish

NextTest == RunAllTests \/ RunStep

SpecTest == InitTest /\ [][NextTest]_vars

\* a pending await is resumed and a pending timer fires
SpecTestFair == SpecTest /\ WF_vars(RunStep)

(***************************************************************************)
(* C1 -- first match in table order, else the default reply.               *)
(***************************************************************************)
\* the response of the first entry of `table` whose key occurs in `lower`,
\* `default` when no key of the table occurs in it
FirstMatch(table, lower, default) ==
  LET hits == { i \in 1..Len(table) : includes(lower, table[i].key) }
  IN  IF hits = {} THEN default
      ELSE table[CHOOSE i \in hits : \A j \in hits : i <= j].value

\* keyword groups as (key, response) pairs
GroupPairs(keys, response) == [i \in 1..Len(keys) |-> [key |-> keys[i], value |-> response]]

\* enhancedResponses followed by the keyword groups getEnhancedResponse tests after it
ExtendedTable ==
  enhancedResponses
    \o GroupPairs(pricingKeywords, pricingResponse)
    \o GroupPairs(locationKeywords, locationResponse)
    \o GroupPairs(teamKeywords, teamResponse)
    \o GroupPairs(historyKeywords, historyResponse)

\* C1 as stated: each chatbot's reply is the response of the first entry of
\* its keyword table whose keyword occurs in the lowercased input, and the
\* default reply when no keyword of the table occurs in it.
C1_TableOnly ==
  LET lower == toLowerCase(trim(rInput))
  IN  /\ rEnhanced # NoReply =>
           rEnhanced = FirstMatch(enhancedResponses, lower, defaultEnhancedResponse)
      /\ rInline # NoReply =>
           rInline = FirstMatch(responses, lower, defaultInlineResponse)

\* C1 amended: the inline chatbot replies as stated; ValleyBot replies with
\* the first match of its keyword table followed, in order, by the pricing,
\* location, team and history keyword groups, and with the default reply
\* only when none of those keywords occurs in the lowercased input either.
C1_FirstMatch ==
  LET lower == toLowerCase(trim(rInput))
  IN  /\ rEnhanced # NoReply =>
           rEnhanced = FirstMatch(ExtendedTable, lower, defaultEnhancedResponse)
      /\ rInline # NoReply =>
           rInline = FirstMatch(responses, lower, defaultInlineResponse)

\* both replies computed for a mixed-case input in which two table keywords occur
C1_Witness ==
  LET lower == toLowerCase(trim(rInput))
  IN  /\ rEnhanced # NoReply /\ rInline # NoReply
      /\ lower # trim(rInput)
      /\ \E i, j \in 1..Len(enhancedResponses) :
           /\ i < j
           /\ includes(lower, enhancedResponses[i].key)
           /\ includes(lower, enhancedResponses[j].key)
           /\ rEnhanced = enhancedResponses[i].value

(***************************************************************************)
(* C2 -- one assistant reply per submission, in submission order.          *)
(***************************************************************************)
\* number of assistant replies pushed for submission i
RepliesFor(i) == Cardinality({ k \in 1..Len(chatReplied) : chatReplied[k] = i })

\* submission i still waits for its timer
IsPending(i) == \E k \in 1..Len(pendingReplies) : pendingReplies[k].id = i

\* C2 as stated: every non-empty submission to ValleyBot has its user
\* message appended by the handler that submits it, and either its single
\* assistant reply is in the history or its reply timer is still pending;
\* replies are appended in the order of the submissions.
C2_OneReplyInOrder ==
  /\ \A i \in 1..Len(chatSubmitted) :
       /\ chatSubmitted[i].appended
       /\ \/ RepliesFor(i) = 1 /\ ~IsPending(i)
          \/ RepliesFor(i) = 0 /\ IsPending(i)
  /\ \A j, k \in 1..Len(chatReplied) : j < k => chatReplied[j] < chatReplied[k]

(***************************************************************************)
(* C3 -- the chat history keeps the newest maxHistoryItems entries.        *)
(***************************************************************************)
\* C3: after any sequence of addUserMessage and addBotMessage calls the
\* chat history holds at most maxHistoryItems entries, and they are the
\* most recently pushed entries in the order they were pushed.
C3_NewestKept ==
  chatHistory.isList =>
    LET items == chatHistory.items
        n == Len(items)
        total == Len(chatPushed)
    IN  /\ n <= maxHistoryItems
        /\ n = IF total < maxHistoryItems THEN total ELSE maxHistoryItems
        /\ \A i \in 1..n : items[i] = chatPushed[total - n + i]

\* a full stored history was loaded, and the welcome message, a user
\* message and its reply were added, each evicting the oldest entry
C3_Witness ==
  /\ chatLoaded
  /\ Len(chatPushed) >= maxHistoryItems + 3
  /\ Len(chatHistory.items) = maxHistoryItems
  /\ chatHistory.items[maxHistoryItems - 1].role = "user"
  /\ chatHistory.items[maxHistoryItems].role = "assistant"
  /\ chatReplied # <<>>

(***************************************************************************)
(* C4 -- each image history keeps its newest entries, up to its maximum.   *)
(***************************************************************************)
\* `items`, newest first, are the `cap` entries added last (all of them when fewer were added)
NewestOf(items, added, cap) ==
  LET n == Len(items)
      total == Len(added)
  IN  /\ n <= cap
      /\ n = IF total < cap THEN total ELSE cap
      /\ \A i \in 1..n : items[i] = added[total - i + 1]

\* C4: after any number of insertions each image-history list holds at most
\* its maximum number of entries (10 in ValleyImageGenerator, 8 in the
\* inline generator, 10 in the function-based generator), and what was
\* removed to stay within the maximum are the oldest entries.
C4_OldestEvicted ==
  /\ generationHistory.isList =>
       NewestOf(generationHistory.items, genAdded, genMaxHistoryItems)
  /\ NewestOf(inlineHistory.items, inlineAdded, inlineMaxHistory)
  /\ imageHistory.isList => NewestOf(imageHistory.items, fnAdded, maxHistory)

\* all three generators started from a full stored history and added an image
C4_Witness ==
  /\ Len(genAdded) > genMaxHistoryItems
  /\ Len(generationHistory.items) = genMaxHistoryItems
  /\ Len(inlineAdded) > inlineMaxHistory
  /\ Len(inlineHistory.items) = inlineMaxHistory
  /\ Len(fnAdded) > maxHistory
  /\ Len(imageHistory.items) = maxHistory

(***************************************************************************)
(* C5 -- with the local fallback enabled, generation resolves to a URL.    *)
(***************************************************************************)
\* C5 as stated: with the local fallback enabled, no image generation fails
\* with an error, and what it resolves to is a non-empty URL.
C5_FallbackResolves ==
  /\ useLocalFallback => genResult.kind # "error"
  /\ localFallbackEnabled => fnResult.kind # "error"
  /\ genResult.kind = "url" => genResult.url # <<>>
  /\ fnResult.kind = "url" => fnResult.url # <<>>

(***************************************************************************)
(* C6 -- a stored text that is not JSON loads as the empty history.        *)
(***************************************************************************)
\* C6 as stated: no exception escapes the code that loads a history, and
\* for each history key holding a text that is not JSON the load yields
\* the empty list.
C6_MalformedLoadsEmpty ==
  /\ genError = NoError
  /\ inlineError = NoError
  /\ localStorage[ImageKey].kind = "malformed" =>
       /\ loadGenerationHistory(localStorage) = List(<<>>)
       /\ loadImageHistory(localStorage) = List(<<>>)
  /\ localStorage[InlineImageKey].kind = "malformed" =>
       inlineLoadHistory(localStorage).history = List(<<>>)
  /\ localStorage[ChatKey].kind = "malformed" => loadChatHistory(localStorage) = List(<<>>)

(***************************************************************************)
(* C7 -- what is saved is what is loaded.                                  *)
(***************************************************************************)
\* the analytics fields C7 names: total counter and per-keyword counters
SameCounters(a, b) ==
  /\ a.totalInteractions = b.totalInteractions
  /\ a.popularQuestions = b.popularQuestions

\* C7 as stated, for ValleyBot: when the text under a key is what saving
\* the in-memory object wrote, loading it yields the in-memory object: the
\* same list entries in the same order, the same total counter and the
\* same per-keyword counters.
C7_RoundTrip ==
  chatLoaded =>
    /\ localStorage[ChatKey] = stringifyChatHistory(chatHistory) =>
         loadChatHistory(localStorage) = chatHistory
    /\ localStorage[AnalyticsKey] = stringifyAnalytics(analytics) =>
         SameCounters(loadAnalytics(localStorage, now), analytics)

(***************************************************************************)
(* C8. When an activity is logged that brings the suspicious-activity log  *)
(* to blockThreshold entries, the block is set while that event is         *)
(* handled: isBlocked becomes true, an expiry is recorded and the blocking *)
(* overlay is shown.                                                       *)
(***************************************************************************)
C8_BlockAtThreshold ==
  [][(/\ Len(suspiciousActivities) < blockThreshold
      /\ Len(suspiciousActivities') >= blockThreshold)
       => /\ isBlocked'
          /\ blockExpiry' # NullTime
          /\ blockMessages' > 0]_vars

(***************************************************************************)
(* C9. A block that was set and has not expired survives a page reload: a  *)
(* SecurityManager constructed and initialised while localStorage holds a  *)
(* block whose expiry is still ahead is blocked.                           *)
(***************************************************************************)
C9_BlockSurvivesReload ==
  (/\ secLoaded
   /\ localStorage[BlockKey].kind = "json"
   /\ localStorage[BlockKey].value.blocked
   /\ now < localStorage[BlockKey].value.expiry.t)
    => isBlocked

(***************************************************************************)
(* C10. After init, a fetch or XMLHttpRequest with a method in             *)
(* protectedMethods reaches the original fetch/send carrying the           *)
(* X-CSRF-Token header equal to the generated token, and a request with    *)
(* any other method reaches the original without that header.              *)
(***************************************************************************)
C10_CsrfHeader ==
  lastRequest.api # "none" =>
    /\ lastRequest.sent
    /\ lastRequest.header =
         (IF lastRequest.method \in protectedMethods THEN csrfToken ELSE NoHeader)

(***************************************************************************)
(* C11. In one run, runAllTests invokes the enabled test functions one at  *)
(* a time in the order navigation, animations, responsiveness, forms,      *)
(* chatbot, image generator, security, performance: each starts only after *)
(* the previous one has finished, and each is invoked exactly once         *)
(* whatever retryCount is configured.                                      *)
(***************************************************************************)
FixedOrder ==
  <<"testNavigation", "testAnimations", "testResponsiveness", "testForms",
    "testChatbot", "testImageGenerator", "testSecurity", "testPerformance">>

RECURSIVE ExpectedEvents(_, _)
ExpectedEvents(order, enabled) ==
  IF order = <<>> THEN <<>>
  ELSE (IF Head(order) \in enabled THEN << <<"start", Head(order)>>, <<"end", Head(order)>> >>
        ELSE <<>>) \o ExpectedEvents(Tail(order), enabled)

C12_TotalsAgree ==
  /\ testResults.total = testResults.passed + testResults.failed + testResults.skipped
  /\ testResults.total = Len(testResults.details)

C12_Witness ==
  /\ isRunning
  /\ testResults.passed > 0
  /\ testResults.skipped > 0
  /\ testResults.total = Len(testResults.details)

(***************************************************************************)
(* C13. A runAllTests call that starts a run always resolves with the      *)
(* results summary and never rejects, also when a test function throws;    *)
(* isRunning is false once the call has resolved.                          *)
(***************************************************************************)
C13_RunResolves ==
  /\ [](runOutcome.state \in {"no call", "pending", "fulfilled"})
  /\ [](runOutcome.state = "fulfilled" => ~isRunning /\ runOutcome.value = testResults)
  /\ [](runOutcome = Pending => isRunning)
  /\ (runOutcome = Pending ~> runOutcome.state = "fulfilled")

C13_Witness ==
  /\ runOutcome.state = "fulfilled"
  /\ ~isRunning
  /\ \E n \in 1..Len(testResults.details) :
       testResults.details[n] = [name |-> "Navigation", status |-> "FAILED"]

(***************************************************************************)
(* C14. The chat analytics total counter increases by one for every user   *)
(* message submitted, whichever input path submits it, and after each such *)
(* submission the persisted analytics object is the in-memory one. (Steps  *)
(* in which a storage write throws are left to C15.)                       *)
(***************************************************************************)
C14_EverySubmissionCounted ==
  [][(chatSubmitted' # chatSubmitted /\ chatError' = NoError)
       => /\ analytics'.totalInteractions = increment(analytics.totalInteractions)
          /\ localStorage'[AnalyticsKey] = stringifyAnalytics(analytics')]_vars

(***************************************************************************)
(* C15. When a localStorage write throws during a chat submission, the     *)
(* exception does not propagate out of the handler that submitted the      *)
(* message.                                                                *)
(***************************************************************************)
C15_WriteErrorContained ==
  [][chatSubmitted' # chatSubmitted => chatError' = NoError]_vars

(***************************************************************************)
(* C16. When the text stored under a history key is valid JSON but not a   *)
(* list, loading resets the history to the empty list, so the in-memory    *)
(* history is a list after every load.                                     *)
(***************************************************************************)
C16_LoadedHistoryIsList ==
  /\ chatLoaded => chatHistory.isList
  /\ genLoaded => generationHistory.isList
  /\ fnLoaded => imageHistory.isList

(***************************************************************************)
(* C17: a call of sanitizeInput on a text that matches at least one of the *)
(* XSS patterns returns '[removed for security]' and appends exactly one   *)
(* record, of type 'Potential XSS attack', to the suspicious-activity log; *)
(* a call on a text that matches none of them leaves the log as it was.    *)
(***************************************************************************)
C17_SanitizeLogsOnce ==
  [][IF MatchesXss[typedText']
       THEN /\ fieldValue' = <<Removed>>
            /\ Len(suspiciousActivities') = Len(suspiciousActivities) + 1
            /\ SubSeq(suspiciousActivities', 1, Len(suspiciousActivities)) = suspiciousActivities
            /\ suspiciousActivities'[Len(suspiciousActivities')].type = "Potential XSS attack"
            /\ suspiciousActivities'[Len(suspiciousActivities')].details = typedText'
     ELSE suspiciousActivities' = suspiciousActivities]_vars

\* 'data:text/html' was passed while the log held one record
C17_Witness ==
  /\ typedText = <<"d", "a", "t", "a", ":", "t", "e", "x", "t", "/", "h", "t", "m", "l">>
  /\ fieldValue = <<Removed>>
  /\ Len(suspiciousActivities) = 2
  /\ suspiciousActivities[2].type = "Potential XSS attack"

\* a text with markup but no pattern was passed, escaped and not logged
C17_WitnessPlain ==
  /\ typedText = <<"<", "b", ">", " ">>
  /\ fieldValue = <<escapeHtml(typedText)>>
  /\ fieldValue # <<typedText>>
  /\ suspiciousActivities = <<>>

C19_NoEntryDiscarded ==
  [][localStorage'[ImageKey] # localStorage[ImageKey]
       => LET old == loadGenerationHistory(localStorage).items
              new == loadGenerationHistory(localStorage').items
          IN  Len(new) < maxHistory
                => \A i \in 1..Len(old) : \E j \in 1..Len(new) : new[j] = old[i]]_vars

(***************************************************************************)
(* C20: in ValleyImageGenerator and in the function-based generator at     *)
(* most one generation is in flight. The function-based generator has at   *)
(* most one request pending and isGenerating is true exactly while it is   *)
(* pending; this.isGenerating of the class is false whenever an event is   *)
(* dispatched, after a generation that succeeded and after one that        *)
(* failed. A generate call refused because isGenerating is true adds no    *)
(* history entry, writes nothing and starts no request; and while          *)
(* isGenerating is true no request is started.                             *)
(***************************************************************************)
C20_OneGenerationInFlight ==
  /\ [](/\ Len(fnPending) <= 1
        /\ isGenerating <=> fnPending # <<>>
        /\ ~genIsGenerating)
  /\ [][/\ fnRefused' # fnRefused
            => UNCHANGED <<imageHistory, fnAdded, fnPending, fnResult, isGenerating,
                           generations, localStorage>>
        /\ isGenerating => fnPending' \in {fnPending, <<>>}]_vars

\* the last generation of the class failed; the function-based generator
\* refused a call while its request was pending, and that request has since
\* been completed
C20_Witness ==
  /\ genResult.kind = "error"
  /\ ~genIsGenerating
  /\ fnRefused = 1
  /\ fnResult.kind = "url"
  /\ fnPending = <<>>
  /\ ~isGenerating

(***************************************************************************)
(* C21: a runAllTests call made while a run is in progress starts no test  *)
(* function, leaves testResults as they are, and leaves isRunning true.    *)
(***************************************************************************)
C21_CallDuringRunIgnored ==
  [][ignoredCalls' # ignoredCalls
       => /\ isRunning /\ isRunning'
          /\ UNCHANGED <<testResults, runIndex, activeTest, checkIndex, waiting,
                         testEvents, runOutcome>>]_vars

\* a call was ignored while testNavigation was waiting for a timer, after
\* results had been logged
C21_Witness ==
  /\ ignoredCalls = 1
  /\ isRunning
  /\ activeTest = "testNavigation"
  /\ waiting
  /\ testResults.total > 0

(***************************************************************************)
(* C22: the endpoints are gone through in ascending priority and the       *)
(* result comes from the first that returns. The class goes through a      *)
(* prefix of pollinations, stability, huggingface; a URL it returns is the *)
(* one of the last endpoint it went through, and it fails only after it    *)
(* went through all three. The function-based generator goes through a     *)
(* prefix of primary, fallback, local; a placeholder image is its result   *)
(* only after primary and fallback, and a URL of the primary API is its    *)
(* result when it went through the primary API alone.                      *)
(***************************************************************************)
ByPriority == <<"pollinations", "stability", "huggingface">>

FnSources == <<"primary", "fallback", "local">>

C22_FirstThatSucceeds ==
  /\ genTried = SubSeq(ByPriority, 1, Len(genTried))
  /\ genResult.kind = "url"
       => /\ genTried # <<>>
          /\ genTried[Len(genTried)] = "pollinations"
          /\ genResult.url[1] = "https://image.pollinations.ai/prompt/"
  /\ genResult.kind = "error" => genTried = ByPriority
  /\ fnTried = SubSeq(FnSources, 1, Len(fnTried))
  /\ (fnPending = <<>> /\ fnResult.kind = "url")
       => IF fnResult.url[1] = "images/placeholder-" THEN fnTried = FnSources
          ELSE /\ fnTried = <<"primary">>
               /\ fnResult.url[1] = "https://image.pollinations.ai/prompt/"

\* the class failed after all three endpoints, and the function-based
\* generator returned a placeholder after the primary and the fallback API
C22_Witness ==
  /\ genResult.kind = "error"
  /\ genTried = ByPriority
  /\ fnTried = FnSources
  /\ fnResult.kind = "url"
  /\ fnResult.url[1] = "images/placeholder-"

(***************************************************************************)
(* C23: during the life of a page isBlocked does not become false before   *)
(* the expiry recorded by the most recent blockUser call has passed.       *)
(***************************************************************************)
C23_BlockLastsUntilExpiry ==
  [][(isBlocked /\ ~isBlocked')
       => /\ blockExpiry # NullTime
          /\ blockExpiry.t <= now']_vars

(***************************************************************************)
(* C24: every block is lifted in the end. The visitor stops typing, and    *)
(* from some time on isBlocked is false, nothing is stored under           *)
(* 'valleytainment_security_block' and no block overlay is in the page.    *)
(***************************************************************************)
C24_BlockLifted ==
  <>[](/\ ~isBlocked
       /\ localStorage[BlockKey] = Absent
       /\ blockMessages = 0)

(***************************************************************************)
(* C25: no block overlay is in the page while isBlocked is false.          *)
(***************************************************************************)
C25_OverlayOnlyWhileBlocked == blockMessages > 0 => isBlocked

C27_RepliesAreEnhanced ==
  [][Len(chatReplied') > Len(chatReplied)
       => \A k \in (Len(chatPushed) + 1)..Len(chatPushed') :
            chatPushed'[k].content = <<getEnhancedResponse(Head(pendingReplies).message)>>]_vars

(***************************************************************************)
(* C28: during the life of a page the suspicious-activity log only grows:  *)
(* every step other than a reload of the page leaves the entries it held   *)
(* in place, so its length never decreases.                                *)
(***************************************************************************)
C28_LogOnlyGrows ==
  [][~(\E token \in Tokens : SecLoad(token))
       => /\ Len(suspiciousActivities') >= Len(suspiciousActivities)
          /\ SubSeq(suspiciousActivities', 1, Len(suspiciousActivities))
               = suspiciousActivities]_vars

\* the block was lifted by its timer and the log still holds the entries
\* that led to it
C28_Witness ==
  /\ now >= StartTime + blockDuration
  /\ ~isBlocked
  /\ unblockTimers = <<>>
  /\ Len(suspiciousActivities) >= blockThreshold

(***************************************************************************)
(* C29: in ValleyBot isListening is true whenever a speech-recognition     *)
(* session started by toggleVoiceInput is still active, whatever the order *)
(* of the toggle clicks, the result, error and end events and the delayed  *)
(* reset after a result.                                                   *)
(***************************************************************************)
C29_ListeningWhileActive ==
  (\E i \in 1..Len(sessions) : sessions[i].status = "active") => isListening

====
